---- MODULE Spec2Model ----
(***************************************************************************)
(* A model of nextcord's gateway engines (src/nextcord/gateway.py):        *)
(*   - GatewayRatelimiter (get_delay / block),                             *)
(*   - DiscordWebSocket   (from_client, poll_event, received_message),     *)
(*   - Shard              (connect, disconnect, _connection_loop,          *)
(*                         _process_raw_data, _process_payload).           *)
(* Optional values (Python None) are sequences of length 0 or 1.           *)
(***************************************************************************)
EXTENDS Integers, Sequences, FiniteSets, TLC

\* ---------------------------------------------------------------- bounds
\* Largest sequence number the gateway sends in a payload's "s".
MaxSeq == 2
\* Most frames that pass the rate limiter of a connection.
MaxSent == 3
\* Most HELLO payloads processed on one socket.
MaxHello == 2
\* Most calls of Shard.connect().
MaxConnects == 2
\* Longest binary frame, and longest pending buffer, in bytes.
MaxChunk == 4
MaxBuffer == 6
\* Most compressed messages one decompressor decodes
MaxDecoded == 2
\* Rate limiter: callers, calls of block(), clock ticks, capacities, window.
NumCallers == 2
MaxCalls == 4
MaxTime == 5
MaxCount == 2
WindowLen == 2
MaxWaiters == 2
MaxIp == 3
MaxModes == 2
MaxAcks == 22
MaxItems == 1
NumClients == 2

\* ------------------------------------------------------- program constants
DISPATCH == 0
HEARTBEAT == 1
IDENTIFY == 2
RESUME == 6
RECONNECT == 7
INVALID_SESSION == 9
HELLO == 10
HEARTBEAT_ACK == 11
GUILD_SYNC == 12
REQUEST_MEMBERS == 8
\* the module constant Shard.change_presence uses, and DiscordWebSocket's
\* class attribute
PRESENCE == 2
WS_PRESENCE == 3
\* DiscordVoiceWebSocket's opcodes (the class attributes IDENTIFY ... RESUMED)
VOICE_IDENTIFY == 0
VOICE_SELECT_PROTOCOL == 1
VOICE_READY == 2
VOICE_HEARTBEAT == 3
VOICE_SESSION_DESCRIPTION == 4
VOICE_SPEAKING == 5
VOICE_HEARTBEAT_ACK == 6
VOICE_RESUME == 7
VOICE_HELLO == 8
VOICE_RESUMED == 9
PacketLen == 74
IpStart == 8
LatencyWindow == 20
VoiceCloseCode == 1000
SpeakingNone == 0
SpeakingVoice == 1
\* GatewayRatelimiter() defaults: 110 slots per 60 seconds.
DefaultCount == 110
DefaultPer == 60
\* DiscordWebSocket.close(code=4000); Shard.disconnect(keep_session=True)
\* closes with 999; DiscordClientWebSocketResponse.close defaults to 4000.
DefaultCloseCode == 4000
KeepSessionCloseCode == 999
InvalidatedCloseCode == 1000

\* ------------------------------------------------------------- optionals
None == << >>
Some(x) == <<x>>

\* ------------------------------------------------------ GatewayRatelimiter
\* __init__(count, per)
RateLimiterNew(count, per) ==
  [max |-> count, remaining |-> count, window |-> 0, per |-> per]

\* is_ratelimited() at time `current`
IsRatelimited(r, current) ==
  IF current > r.window + r.per THEN FALSE ELSE r.remaining = 0

\* (mutant) get_delay with the time spent in the window added to the delay
GetDelay_SignError(r, current) ==
  LET r1 == IF current > r.window + r.per THEN [r EXCEPT !.remaining = r.max] ELSE r
      r2 == IF r1.remaining = r1.max THEN [r1 EXCEPT !.window = current] ELSE r1
      r3 == [r2 EXCEPT !.remaining = r2.remaining - 1]
      r4 == IF r3.remaining = 0 THEN [r3 EXCEPT !.window = current] ELSE r3
  IN IF r2.remaining = 0
       THEN [rl |-> r2, delay |-> r2.per + (current - r2.window), consumed |-> 0]
       ELSE [rl |-> r4, delay |-> 0, consumed |-> 1]

\* (mutant) get_delay without the reset of an expired window
GetDelay_NoReset(r, current) ==
  LET r2 == IF r.remaining = r.max THEN [r EXCEPT !.window = current] ELSE r
      r3 == [r2 EXCEPT !.remaining = r2.remaining - 1]
      r4 == IF r3.remaining = 0 THEN [r3 EXCEPT !.window = current] ELSE r3
  IN IF r2.remaining = 0
       THEN [rl |-> r2, delay |-> r2.per - (current - r2.window), consumed |-> 0]
       ELSE [rl |-> r4, delay |-> 0, consumed |-> 1]

\* get_delay() at time `current`: the limiter afterwards, the delay returned,
\* and how many times `self.remaining -= 1` ran.
GetDelay(r, current) ==
  LET r1 == IF current > r.window + r.per
              THEN [r EXCEPT !.remaining = r.max] ELSE r
      r2 == IF r1.remaining = r1.max
              THEN [r1 EXCEPT !.window = current] ELSE r1
      r3 == [r2 EXCEPT !.remaining = r2.remaining - 1]
      r4 == IF r3.remaining = 0 THEN [r3 EXCEPT !.window = current] ELSE r3
  IN IF r2.remaining = 0
       THEN [rl |-> r2, delay |-> r2.per - (current - r2.window), consumed |-> 0]
       ELSE [rl |-> r4, delay |-> 0, consumed |-> 1]

\* block() run to completion by a caller that finds the lock free: the limiter
\* afterwards and the time at which the call returns (it sleeps `delay`).
Block(r, current) ==
  LET g == GetDelay(r, current)
  IN [rl |-> g.rl,
      now |-> IF g.delay > 0 THEN current + g.delay ELSE current]

\* ------------------------------------------------ signals to the owner
\* What a receive path ended with: an exception type, and for
\* ReconnectWebSocket its resume flag, for ConnectionClosed its code.
Signal(type, resume, code) == [type |-> type, resume |-> resume, code |-> code]
NoSignal == Signal("none", FALSE, None)
ReconnectWebSocket(resume) == Signal("ReconnectWebSocket", resume, None)
ConnectionClosed(code) == Signal("ConnectionClosed", FALSE, code)
Exception(type) == Signal(type, FALSE, None)

\* ------------------------------------------------------- inbound payloads
\* {op, s, t, d}: hasS is whether the key "s" is present; s is None for null.
SeqVals == {None} \cup {Some(n) : n \in 1..MaxSeq}
Events == {"READY", "RESUMED", "MESSAGE_CREATE"}
HelloIntervals == {41250}
SessionIds == {"sA"}
ResumeUrls == {"wss://resume"}
NoData == [flag |-> FALSE, heartbeat_interval |-> 0, session_id |-> "",
           resume_gateway_url |-> ""]
Payload(op, hasS, s, t, d) == [op |-> op, hasS |-> hasS, s |-> s, t |-> t, d |-> d]
NoPayload == Payload(GUILD_SYNC, TRUE, None, "", NoData)
\* A DISPATCH carries any s (or none at all); the other opcodes carry a null
\* s or s = 1.
SeqKeys == {<<TRUE, s>> : s \in SeqVals} \cup {<<FALSE, None>>}
ControlSeqs == {None, Some(1)}
Payloads ==
  {Payload(DISPATCH, k[1], k[2], "READY",
           [NoData EXCEPT !.session_id = sid, !.resume_gateway_url = url]) :
     k \in SeqKeys, sid \in SessionIds, url \in ResumeUrls}
  \cup {Payload(DISPATCH, k[1], k[2], t, NoData) :
     k \in SeqKeys, t \in Events \ {"READY"}}
  \cup {Payload(op, TRUE, q, "", NoData) :
     q \in ControlSeqs, op \in {HEARTBEAT, RECONNECT, HEARTBEAT_ACK, GUILD_SYNC}}
  \cup {Payload(INVALID_SESSION, TRUE, q, "", [NoData EXCEPT !.flag = b]) :
     q \in ControlSeqs, b \in BOOLEAN}
  \cup {Payload(HELLO, TRUE, q, "", [NoData EXCEPT !.heartbeat_interval = ms]) :
     q \in ControlSeqs, ms \in HelloIntervals}

\* Close codes a socket can report (None: no close frame was seen).
CloseCodes == {None} \cup {Some(c) : c \in {1000, 1006, 4000, 4004,
                                             4010, 4011, 4012, 4013, 4014}}
\* The frame types that end a connection: ERROR, and CLOSE for the three the
\* code treats alike (CLOSE, CLOSING, CLOSED).
ClosureTypes == {"ERROR", "CLOSE"}

\* x / 1000 as a fraction in lowest terms (Python's true division).
RECURSIVE GCD(_, _)
GCD(a, b) == IF b = 0 THEN a ELSE GCD(b, a % b)
Seconds(ms) == [num |-> ms \div GCD(ms, 1000), den |-> 1000 \div GCD(ms, 1000)]
ZeroSeconds == [num |-> 0, den |-> 1]

\* ------------------------------------------------------- heartbeat tasks
\* hb is [ref, leaked]. ref is the heartbeat loop task _heartbeat_task refers
\* to: "None", or that task's position: "sleep" (in asyncio.sleep), "await"
\* (awaiting the future now in _heartbeat_ack_received), "orphan" (awaiting a
\* future that was replaced in the slot), "exit". leaked counts the running
\* loop tasks nothing refers to any more, by position.
NoLeaks == [sleep |-> 0, await |-> 0, orphan |-> 0]
NoTasks == [ref |-> "None", leaked |-> NoLeaks]
Running(pos) == pos \in {"sleep", "await", "orphan"}
\* asyncio.create_task(self._heartbeat_loop()) stored in _heartbeat_task
CreateTask(hb) ==
  [ref |-> "sleep",
   leaked |-> IF Running(hb.ref)
                THEN [hb.leaked EXCEPT ![hb.ref] = @ + 1] ELSE hb.leaked]
\* if self._heartbeat_task: cancel(); self._heartbeat_task = None
CancelTask(hb) == [hb EXCEPT !.ref = "None"]
\* future.set_result: the tasks awaiting the slot's future resume and sleep.
WakeAwaiting(hb) ==
  [ref |-> IF hb.ref = "await" THEN "sleep" ELSE hb.ref,
   leaked |-> [hb.leaked EXCEPT !.sleep = @ + hb.leaked.await, !.await = 0]]
\* future.cancel(): the tasks awaiting the slot's future end cancelled.
CancelAwaiting(hb) ==
  [ref |-> IF hb.ref = "await" THEN "exit" ELSE hb.ref,
   leaked |-> [hb.leaked EXCEPT !.await = 0]]
\* a new future is stored in the slot: the old one's waiters are orphaned.
OrphanAwaiting(hb) ==
  [ref |-> IF hb.ref = "await" THEN "orphan" ELSE hb.ref,
   leaked |-> [hb.leaked EXCEPT !.orphan = @ + hb.leaked.await, !.await = 0]]
\* The task `which` ("ref" or "leaked") is in its sleep.
Sleeping(hb, which) ==
  IF which = "ref" THEN hb.ref = "sleep" ELSE hb.leaked.sleep > 0
\* That task leaves its sleep and moves to `pos` ("await" or "exit").
MoveSleeper(hb, which, pos) ==
  IF which = "ref" THEN [hb EXCEPT !.ref = pos]
  ELSE [hb EXCEPT !.leaked.sleep = @ - 1,
                  !.leaked.await = IF pos = "await" THEN @ + 1 ELSE @]

\* ------------------------------------------------------------ compression
\* The byte values of the marker; any other value fails the marker test as
\* one of these does where the marker has the other.
Bytes == {0, 255}
ZLIB_SUFFIX == <<0, 0, 255, 255>>
EndsWithSuffix(data) ==
  /\ Len(data) >= 4
  /\ SubSeq(data, Len(data) - 3, Len(data)) = ZLIB_SUFFIX
\* zlib.decompressobj(): the state of a decompressor is the history of what it
\* has consumed, here the socket each consumed message came from.
ZlibNew == << >>
\* _zlib.decompress(buffer).decode("utf-8"): the decoded text is determined by
\* the decompressor's state and the bytes; the decompressor's state advances.
Decompress(z, buffer, sock) ==
  [text |-> [ctx |-> z, data |-> buffer], zlib |-> Append(z, sock)]
NoText == [ctx |-> << >>, data |-> << >>]

\* -------------------------------------------------------- event waiters
\* An EventListener is (predicate, event, result, future). A predicate is a
\* caller's function of the event data: "always" returns True, "is_sB" returns
\* whether the data's session_id is "sB", "raises" raises. result is "None" or
\* "transform", a caller's function of the data that returns a value, or
\* "raising", a caller's function that raises. future is the number of the
\* entry's future among the futures created.
Predicates == {"always", "is_sB", "raises"}
Results == {"None", "transform"}
RaisingResults == Results \cup {"raising"}
\* entry.result(data) raises
ResultRaises(entry, data) == entry.result = "raising"
\* future.done() and not cancelled: set_result and set_exception raise
\* InvalidStateError on such a future
Completed(f) == f.state \in {"result", "exception"}
EventListener(predicate, event, result, future) ==
  [predicate |-> predicate, event |-> event, result |-> result, future |-> future]
\* entry.predicate(data) raises / returns a true value
PredicateRaises(predicate, data) == predicate = "raises"
PredicateHolds(predicate, data) ==
  \/ predicate = "always"
  \/ predicate = "is_sB" /\ data.session_id = "sB"

\* A future: pending, cancelled, or done with a result or an exception. A
\* value is the data itself (fn "data"), what the transform made of the data
\* (fn "transform"), or the exception the predicate raised on the data.
Value(fn, d) == [fn |-> fn, d |-> d]
Future(state, value) == [state |-> state, value |-> value]
PendingFuture == Future("pending", Value("", NoData))
\* future.cancel(): a pending future becomes cancelled, a done one stays
CancelFuture(f) == IF f.state = "pending" THEN [f EXCEPT !.state = "cancelled"] ELSE f

\* (mutant) the waiter always gets the data itself
ListenerResult_AlwaysRaw(entry, data) == Value("data", data)

\* ret = data if entry.result is None else entry.result(data)
ListenerResult(entry, data) ==
  IF entry.result = "None" THEN Value("data", data) ELSE Value("transform", data)

\* (mutant) a raising predicate rejects every pending future
OnPredicateError_RejectAll(futures, entry, data) ==
  [f \in DOMAIN futures |->
     IF futures[f].state = "pending"
       THEN Future("exception", Value("predicate", data)) ELSE futures[f]]

\* except Exception as exc: future.set_exception(exc)
OnPredicateError(futures, entry, data) ==
  [futures EXCEPT ![entry.future] = Future("exception", Value("predicate", data))]

\* the loop over enumerate(listeners), from `index` on: the futures afterwards,
\* the indexes collected in `removed`, and the exception that left the loop
\* ("" when it ran to its end). The call of entry.result is in the else
\* clause of the try, so what it raises is not caught.
RECURSIVE ListenerLoop(_, _, _, _, _, _)
ListenerLoop(listeners, futures, event, data, index, removed) ==
  IF index > Len(listeners)
    THEN [futures |-> futures, removed |-> removed, raised |-> ""]
  ELSE
    LET entry == listeners[index]
        leave(type) == [futures |-> futures, removed |-> removed, raised |-> type]
    IN IF entry.event # event
         THEN ListenerLoop(listeners, futures, event, data, index + 1, removed)
       ELSE IF futures[entry.future].state = "cancelled"
         THEN ListenerLoop(listeners, futures, event, data, index + 1,
                           Append(removed, index))
       ELSE IF PredicateRaises(entry.predicate, data)
         THEN IF Completed(futures[entry.future]) THEN leave("InvalidStateError")
              ELSE ListenerLoop(listeners, OnPredicateError(futures, entry, data),
                                event, data, index + 1, Append(removed, index))
       ELSE IF PredicateHolds(entry.predicate, data)
         THEN IF ResultRaises(entry, data) THEN leave("ResultError")
              ELSE IF Completed(futures[entry.future]) THEN leave("InvalidStateError")
              ELSE ListenerLoop(listeners,
                                [futures EXCEPT ![entry.future] =
                                   Future("result", ListenerResult(entry, data))],
                                event, data, index + 1, Append(removed, index))
       ELSE ListenerLoop(listeners, futures, event, data, index + 1, removed)

\* del listeners[index]; an index past the end leaves the list as it is here
DeleteIndex(listeners, index) ==
  IF index > Len(listeners) THEN listeners
  ELSE SubSeq(listeners, 1, index - 1) \o SubSeq(listeners, index + 1, Len(listeners))

\* (mutant) deletes the collected indexes first to last
RECURSIVE DeleteRemoved_Forward(_, _)
DeleteRemoved_Forward(listeners, removed) ==
  IF removed = << >> THEN listeners
  ELSE DeleteRemoved_Forward(DeleteIndex(listeners, Head(removed)), Tail(removed))

\* for index in reversed(removed): del listeners[index]
RECURSIVE DeleteRemoved(_, _)
DeleteRemoved(listeners, removed) ==
  IF removed = << >> THEN listeners
  ELSE DeleteRemoved(DeleteIndex(listeners, removed[Len(removed)]),
                     SubSeq(removed, 1, Len(removed) - 1))

\* "remove the dispatched listeners": the registry and the futures after the
\* dispatch of `event` with `data`; an exception leaves before the deletions
DispatchListeners(listeners, futures, event, data) ==
  LET r == ListenerLoop(listeners, futures, event, data, 1, << >>)
  IN [listeners |-> IF r.raised = "" THEN DeleteRemoved(listeners, r.removed)
                    ELSE listeners,
      futures |-> r.futures, raised |-> r.raised]

\* ------------------------------------------------------- DiscordWebSocket
\* The events the client registered a parser for in _discord_parsers; RESUMED
\* stands for an event name without one. During one operation, `parsed` is
\* the event whose parser was invoked ("" when none was) and `seen` what the
\* connection held when the scan of the waiters began.
DiscordParsers == {"READY", "MESSAGE_CREATE"}
NoSeen == [session_id |-> << >>, sequence |-> << >>, parsed |-> ""]
Seen(x) == [session_id |-> x.session_id, sequence |-> x.sequence,
            parsed |-> x.parsed]
\* try: func = self._discord_parsers[event] / except KeyError / else: func(data)
InvokeParser(x, event) ==
  [x EXCEPT !.parsed = IF event \in DiscordParsers THEN event ELSE ""]

\* __init__ and the attributes from_client injects (lines 634-655); pc is
\* from_client's position: "poll_hello" (line 660), "handshake" (662-666),
\* then "run" (the owner polls), "dead" once poll_event or from_client raised.
WSNew(session, sequence, resume) ==
  [pc |-> "poll_hello", resume |-> resume,
   open |-> TRUE, close_code |-> None, sock |-> 1,
   _close_code |-> None,
   session_id |-> session, resume_url |-> None, sequence |-> sequence,
   heartbeat_interval |-> ZeroSeconds, _heartbeat_sent_time |-> 0, latency |-> 0,
   hb |-> NoTasks, _heartbeat_ack_received |-> "None",
   _zlib |-> ZlibNew, _buffer |-> << >>,
   _dispatch_listeners |-> << >>, futures |-> << >>,
   parsed |-> "", seen |-> NoSeen,
   sent |-> << >>, hellos |-> 0, raised |-> NoSignal]

WSRaise(w, sig) == [w EXCEPT !.raised = sig, !.pc = "dead"]

\* the code poll_event and _can_handle_close classify
WSEffectiveCloseCode(w) ==
  IF w._close_code # None /\ w._close_code # Some(0) THEN w._close_code
  ELSE w.close_code

\* (mutant) classifies the socket's close code alone
WSCanHandleClose_SocketCodeOnly(w) ==
  w.close_code \notin
    {Some(c) : c \in {1000, 4004, 4010, 4011, 4012, 4013, 4014}}

\* _can_handle_close()
WSCanHandleClose(w) ==
  WSEffectiveCloseCode(w) \notin
    {Some(c) : c \in {1000, 4004, 4010, 4011, 4012, 4013, 4014}}

\* close(code)
WSClose(w, code) ==
  [w EXCEPT !.hb = CancelTask(@),
            !._close_code = Some(code),
            !.open = FALSE]

\* (mutant) swallows the failure when the closure cannot be handled
WSSendStr_SwallowWhenFatal(w, op) ==
  IF w.open THEN [w EXCEPT !.sent = Append(@, op)]
  ELSE IF ~WSCanHandleClose(w) THEN w
  ELSE WSRaise(w, ConnectionClosed(None))

\* socket.send_str on a closed socket raises RuntimeError, which send_as_json
\* and send_heartbeat swallow when the closure can be handled.
WSSendStr(w, op) ==
  IF w.open THEN [w EXCEPT !.sent = Append(@, op)]
  ELSE IF WSCanHandleClose(w) THEN w
  ELSE WSRaise(w, ConnectionClosed(None))

\* heartbeat(): send_heartbeat, then record the send time
WSHeartbeat(w, t) ==
  LET w1 == WSSendStr(w, HEARTBEAT)
  IN IF w1.raised # NoSignal THEN w1 ELSE [w1 EXCEPT !._heartbeat_sent_time = t]

\* (mutant) the send time minus the ack time
WSHeartbeatAck_Reversed(w, t) ==
  IF w._heartbeat_ack_received = "pending"
    THEN [w EXCEPT !._heartbeat_ack_received = "done",
                   !.hb = WakeAwaiting(@),
                   !.latency = w._heartbeat_sent_time - t]
    ELSE WSRaise(w, Exception("InvalidStateError"))

\* received_message, lines 792-796
WSHeartbeatAck(w, t) ==
  IF w._heartbeat_ack_received = "pending"
    THEN [w EXCEPT !._heartbeat_ack_received = "done",
                   !.hb = WakeAwaiting(@),
                   !.latency = t - w._heartbeat_sent_time]
    ELSE WSRaise(w, Exception("InvalidStateError"))

\* received_message, lines 802-809
WSHello(w, d, t) ==
  LET w1 == WSHeartbeat([w EXCEPT !.heartbeat_interval = Seconds(d.heartbeat_interval)], t)
  IN IF w1.raised # NoSignal THEN w1
     ELSE [w1 EXCEPT !.hb = CreateTask(@), !.hellos = @ + 1]

\* received_message, lines 811-820
WSInvalidateSession(w, d) ==
  IF d.flag
    THEN WSRaise(WSClose(w, DefaultCloseCode), ReconnectWebSocket(TRUE))
    ELSE WSRaise(WSClose([w EXCEPT !.sequence = None, !.session_id = None],
                         InvalidatedCloseCode),
                 ReconnectWebSocket(FALSE))

\* wait_for(event, predicate, result)
WSWaitFor(w, event, predicate, result) ==
  [w EXCEPT !.futures = Append(@, PendingFuture),
            !._dispatch_listeners =
               Append(@, EventListener(predicate, event, result, Len(w.futures) + 1))]

\* (mutant) the waiters are scanned before READY is captured and the parser
\* is invoked
WSDispatch_WaitersFirst(w, p) ==
  LET r == DispatchListeners(w._dispatch_listeners, w.futures, p.t, p.d)
      w1 == [w EXCEPT !.seen = Seen(w), !._dispatch_listeners = r.listeners,
                      !.futures = r.futures]
      w2 == IF p.t = "READY"
              THEN [w1 EXCEPT !.sequence = p.s,
                              !.session_id = Some(p.d.session_id),
                              !.resume_url = Some(p.d.resume_gateway_url)]
              ELSE w1
      w3 == InvokeParser(w2, p.t)
  IN IF r.raised = "" THEN w3 ELSE WSRaise(w3, Exception(r.raised))

\* received_message, lines 825-881
WSDispatch(w, p) ==
  LET w1 == IF p.t = "READY"
              THEN [w EXCEPT !.sequence = p.s,
                             !.session_id = Some(p.d.session_id),
                             !.resume_url = Some(p.d.resume_gateway_url)]
              ELSE w
      w2 == InvokeParser(w1, p.t)
      r == DispatchListeners(w2._dispatch_listeners, w2.futures, p.t, p.d)
      w3 == [w2 EXCEPT !.seen = Seen(w2), !._dispatch_listeners = r.listeners,
                       !.futures = r.futures]
  IN IF r.raised = "" THEN w3 ELSE WSRaise(w3, Exception(r.raised))

\* (mutant) keeps the larger of the stored sequence and s
WSUpdateSequence_Monotonic(w, p) ==
  IF p.s # None /\ (w.sequence = None \/ p.s[1] > w.sequence[1])
    THEN [w EXCEPT !.sequence = p.s] ELSE w

\* received_message, lines 777-781: seq = message["s"]
WSUpdateSequence(w, p) ==
  IF p.s # None THEN [w EXCEPT !.sequence = p.s] ELSE w

\* received_message from line 769 on, for one decoded payload
WSReceivedPayload(w, p, t) ==
  IF ~p.hasS THEN WSRaise(w, Exception("KeyError"))
  ELSE LET w1 == WSUpdateSequence(w, p)
       IN CASE p.op = DISPATCH -> WSDispatch(w1, p)
            [] p.op = RECONNECT ->
                 WSRaise(WSClose(w1, DefaultCloseCode), ReconnectWebSocket(TRUE))
            [] p.op = HEARTBEAT_ACK /\ w1._heartbeat_ack_received # "None" ->
                 WSHeartbeatAck(w1, t)
            [] p.op = HEARTBEAT -> WSHeartbeat(w1, t)
            [] p.op = HELLO -> WSHello(w1, p.d, t)
            [] p.op = INVALID_SESSION -> WSInvalidateSession(w1, p.d)
            [] OTHER -> w1

\* received_message, lines 760-767, for one binary frame: the object
\* afterwards and the texts decoded (none or one).
WSFeed(w, chunk) ==
  LET buf == w._buffer \o chunk
      w1 == [w EXCEPT !._buffer = buf]
      dec == Decompress(w._zlib, buf, w.sock)
  IN IF Len(chunk) < 4 \/ ~EndsWithSuffix(chunk)
       THEN [w |-> w1, texts |-> << >>]
       ELSE [w |-> [w1 EXCEPT !._zlib = dec.zlib, !._buffer = << >>],
             texts |-> <<dec.text>>]

\* poll_event, lines 909-925: a closure frame or a read timeout
WSPollClosed(w, timedOut) ==
  LET w1 == [w EXCEPT !.hb = CancelTask(@)]
  IN IF timedOut THEN WSRaise(w1, ReconnectWebSocket(TRUE))
     ELSE IF WSCanHandleClose(w1) THEN WSRaise(w1, ReconnectWebSocket(TRUE))
     ELSE WSRaise(w1, ConnectionClosed(WSEffectiveCloseCode(w1)))

\* ------------------------------------------------------------------ Shard
\* __init__ (lines 177-204). _socket is 0 for None, else the number of the
\* socket connect() opened; sent holds the frames the last operation sent;
\* ctask is the state of the receive loop task that
\* connect() created last ("none", "running", "cancelled", "failed"), and
\* raised is the exception that task ended with.
ShardNew ==
  [_socket |-> 0, open |-> FALSE, close_code |-> None,
   _connection_task |-> FALSE, ctask |-> "none", raised |-> NoSignal,
   session_id |-> None, resume_url |-> None, sequence |-> None,
   heartbeat_interval |-> ZeroSeconds, _heartbeat_sent_time |-> 0, latency |-> 0,
   hb |-> NoTasks, _heartbeat_ack_received |-> "None",
   _zlib |-> ZlibNew, _buffer |-> << >>,
   dispatch_listeners |-> << >>, futures |-> << >>,
   parsed |-> "", seen |-> NoSeen,
   sent |-> << >>, hellos |-> 0, connects |-> 0]

\* A Shard method runs on a context [sh, rl, now]: the shard, its rate
\* limiter and the clock.
Ctx(s, r, t) == [sh |-> s, rl |-> r, now |-> t]

\* an exception leaves the receive loop task
ShardFail(s, type) == [s EXCEPT !.raised = Exception(type), !.ctask = "failed"]
Failed(c) == c.sh.ctask # "running"

\* send(data): the rate limiter first, then the socket
ShardSend(c, op) ==
  IF c.sh._socket = 0 THEN [c EXCEPT !.sh = ShardFail(@, "AttributeError")]
  ELSE LET b == Block(c.rl, c.now)
       IN IF c.sh.open
            THEN Ctx([c.sh EXCEPT !.sent = Append(@, op)], b.rl, b.now)
            ELSE Ctx(ShardFail(c.sh, "RuntimeError"), b.rl, b.now)

\* heartbeat()
ShardHeartbeat(c) ==
  LET c1 == ShardSend(c, HEARTBEAT)
  IN IF Failed(c1) THEN c1
     ELSE [c1 EXCEPT !.sh._heartbeat_sent_time = c1.now]

\* disconnect(keep_session). `self`: the caller is the receive loop's own
\* task, which then cancels itself; the CancelledError is delivered where that
\* task next suspends: inside socket.close() when `suspends`, else at the
\* loop's next read.
ShardDisconnect(s, keep_session, self, suspends) ==
  IF s._socket = 0 THEN s
  ELSE
    LET wasTask == s._connection_task
        s1 == [s EXCEPT
                 !.ctask = IF wasTask /\ @ = "running" /\ ~self THEN "cancelled" ELSE @,
                 !.raised = IF wasTask /\ s.ctask = "running" /\ ~self
                              THEN Exception("CancelledError") ELSE @,
                 !._connection_task = FALSE,
                 !.hb = IF s._heartbeat_ack_received = "pending"
                          THEN CancelAwaiting(CancelTask(@)) ELSE CancelTask(@),
                 !._heartbeat_ack_received = "None"]
        code == IF keep_session THEN KeepSessionCloseCode ELSE DefaultCloseCode
        cancelled(x) == [x EXCEPT !.ctask = "cancelled",
                                  !.raised = Exception("CancelledError")]
        s2 == [s1 EXCEPT !.open = FALSE,
                         !.close_code = IF s.open THEN Some(code) ELSE @]
        s3 == IF keep_session THEN s2
              ELSE [s2 EXCEPT !.resume_url = None, !.session_id = None,
                              !.sequence = None]
        s4 == [s3 EXCEPT !._socket = 0]
    IN IF self /\ wasTask
         THEN IF suspends THEN cancelled(s2) ELSE cancelled(s4)
         ELSE s4

\* dispatch_events(data, event)
ShardDispatchEvents(s, p) ==
  LET s1 == IF p.t = "READY"
              THEN [s EXCEPT !.session_id = Some(p.d.session_id),
                             !.resume_url = Some(p.d.resume_gateway_url)]
              ELSE s
      s2 == InvokeParser(s1, p.t)
      r == DispatchListeners(s2.dispatch_listeners, s2.futures, p.t, p.d)
      s3 == [s2 EXCEPT !.seen = Seen(s2), !.dispatch_listeners = r.listeners,
                       !.futures = r.futures]
  IN IF r.raised = "" THEN s3 ELSE ShardFail(s3, r.raised)

\* _process_payload, lines 295-297: seq = payload.get("s")
ShardUpdateSequence(s, p) ==
  IF p.hasS /\ p.s # None THEN [s EXCEPT !.sequence = p.s] ELSE s

\* _process_payload, lines 308-311
ShardHeartbeatAck(c) ==
  IF c.sh._heartbeat_ack_received = "pending"
    THEN [c EXCEPT !.sh._heartbeat_ack_received = "done",
                   !.sh.hb = WakeAwaiting(@),
                   !.sh.latency = c.now - c.sh._heartbeat_sent_time]
    ELSE [c EXCEPT !.sh = ShardFail(@, "InvalidStateError")]

\* _process_payload, lines 316-325
ShardHello(c, d) ==
  LET c1 == ShardHeartbeat(
              [c EXCEPT !.sh.heartbeat_interval = Seconds(d.heartbeat_interval)])
      c2 == [c1 EXCEPT !.sh.hb = CreateTask(@), !.sh.hellos = @ + 1]
  IN IF Failed(c1) THEN c1
     ELSE IF c2.sh.session_id # None THEN ShardSend(c2, RESUME)
     ELSE ShardSend(c2, IDENTIFY)

\* _process_payload(payload)
ShardProcessPayload(c, p, suspends) ==
  LET c1 == [c EXCEPT !.sh = ShardUpdateSequence(@, p)]
  IN CASE p.op = DISPATCH -> [c1 EXCEPT !.sh = ShardDispatchEvents(@, p)]
       [] p.op = RECONNECT ->
            [c1 EXCEPT !.sh = ShardDisconnect(@, FALSE, TRUE, suspends)]
       [] p.op = HEARTBEAT_ACK /\ c1.sh._heartbeat_ack_received # "None" ->
            ShardHeartbeatAck(c1)
       [] p.op = HEARTBEAT -> ShardHeartbeat(c1)
       [] p.op = HELLO -> ShardHello(c1, p.d)
       [] p.op = INVALID_SESSION ->
            [c1 EXCEPT !.sh = ShardDisconnect(@, p.d.flag, TRUE, suspends)]
       [] OTHER -> c1

\* _process_raw_data(msg) for one binary frame: the shard afterwards and the
\* texts decoded (none or one).
ShardProcessRawData(s, chunk) ==
  LET buf == s._buffer \o chunk
      s1 == [s EXCEPT !._buffer = buf]
      dec == Decompress(s._zlib, buf, s._socket)
  IN IF Len(chunk) < 4 \/ ~EndsWithSuffix(chunk)
       THEN [sh |-> ShardFail(s1, "ValueError"), texts |-> << >>]
       ELSE [sh |-> [s1 EXCEPT !._zlib = dec.zlib, !._buffer = << >>],
             texts |-> <<dec.text>>]

\* connect(): a new socket and a new receive loop task
ShardConnectTo(s) ==
  [s EXCEPT !._socket = s.connects + 1, !.connects = @ + 1,
            !.open = TRUE, !.close_code = None,
            !._connection_task = TRUE, !.ctask = "running", !.raised = NoSignal,
            !.hellos = 0]

\* ------------------------------------------------- DiscordVoiceWebSocket
\* The object after from_client, with the VoiceClient fields it writes (ip,
\* port, mode, ssrc set) and, of initial_connection's locals, the datagram
\* `recv` and the modes the server offered. sent holds the frames the last
\* operation sent, each [op, address, port, mode]; acks counts the
\* acknowledged heartbeats; pc is "run", or "dead" once poll_event raised.
VoiceFrame(op, address, port, mode) ==
  [op |-> op, address |-> address, port |-> port, mode |-> mode,
   speaking |-> 0, ssrc |-> FALSE]
VoiceNew ==
  [pc |-> "run", open |-> TRUE, _close_code |-> None,
   hb |-> NoTasks, _heartbeat_ack_received |-> "None",
   heartbeat_interval |-> ZeroSeconds, _heartbeat_sent_time |-> 0,
   _latencies |-> << >>, acks |-> 0, secret_key |-> FALSE,
   ip |-> None, port |-> None, mode |-> "", ssrc |-> FALSE,
   recv |-> << >>, offered |-> << >>, hooked |-> None,
   sent |-> << >>, hellos |-> 0, raised |-> NoSignal]

VoiceRaise(v, sig) == [v EXCEPT !.raised = sig, !.pc = "dead"]

\* send_as_json / send_heartbeat: ws.send_str raises RuntimeError on a closed
\* socket, and nothing catches it
VoiceSend(v, frame) ==
  IF v.open THEN [v EXCEPT !.sent = Append(@, frame)]
  ELSE VoiceRaise(v, Exception("RuntimeError"))

\* heartbeat()
\* from_client, lines 1154-1168: the socket is connected, then resume() or
\* identify() sends its frame
VoiceFromClient(v, resume) ==
  VoiceSend([v EXCEPT !.pc = "run"],
            VoiceFrame(IF resume THEN VOICE_RESUME ELSE VOICE_IDENTIFY,
                       << >>, 0, ""))

VoiceHeartbeat(v, t) ==
  LET v1 == VoiceSend(v, VoiceFrame(VOICE_HEARTBEAT, << >>, 0, ""))
  IN IF v1.raised # NoSignal THEN v1 ELSE [v1 EXCEPT !._heartbeat_sent_time = t]

\* recv.index(0, start): the position (from 1) of the first zero byte at or
\* after offset `start` (from 0); 0 stands for ValueError
IndexOfZero(recv, start) ==
  IF \A i \in start + 1 .. Len(recv) : recv[i] # 0 THEN 0
  ELSE CHOOSE i \in start + 1 .. Len(recv) :
         recv[i] = 0 /\ \A j \in start + 1 .. i - 1 : recv[j] # 0

\* bytes.decode("ascii"): the code points are the byte values; a byte above
\* 127 raises UnicodeDecodeError
DecodeAscii(bytes) ==
  [ok |-> \A i \in DOMAIN bytes : bytes[i] < 128, text |-> bytes]

\* (mutant) reads the last two bytes low byte first
UnpackPort_LittleEndian(recv) == recv[Len(recv)] * 256 + recv[Len(recv) - 1]

\* struct.unpack_from(">H", recv, len(recv) - 2)[0]
UnpackPort(recv) == recv[Len(recv) - 1] * 256 + recv[Len(recv)]

\* VoiceClient.supported_modes and the modes a server may offer
SupportedModes == {"xsalsa20_poly1305_lite", "xsalsa20_poly1305"}
OfferedModes == SupportedModes \cup {"aead_aes256_gcm"}

\* (mutant) keeps every offered mode
FilterModes_KeepAll(modes) == modes

\* [mode for mode in data["modes"] if mode in supported_modes]
FilterModes(modes) == SelectSeq(modes, LAMBDA mode : mode \in SupportedModes)

\* initial_connection(data), with recv the datagram sock_recv returned
VoiceInitialConnection(v, modes, recv) ==
  LET v0 == [v EXCEPT !.ssrc = TRUE, !.recv = recv, !.offered = modes]
      ip_end == IndexOfZero(recv, IpStart)
      dec == DecodeAscii(SubSeq(recv, IpStart + 1, ip_end - 1))
      v1 == [v0 EXCEPT !.ip = Some(dec.text)]
      v2 == [v1 EXCEPT !.port = Some(UnpackPort(recv))]
      supported == FilterModes(modes)
  IN IF ip_end = 0 THEN VoiceRaise(v0, Exception("ValueError"))
     ELSE IF ~dec.ok THEN VoiceRaise(v0, Exception("UnicodeDecodeError"))
     ELSE IF supported = << >> THEN VoiceRaise(v2, Exception("IndexError"))
     ELSE VoiceSend(v2, VoiceFrame(VOICE_SELECT_PROTOCOL, dec.text,
                                   UnpackPort(recv), supported[1]))

\* received_message: HELLO
VoiceHello(v, ms) ==
  [v EXCEPT !.heartbeat_interval = Seconds(ms),
            !.hb = CreateTask(@), !.hellos = @ + 1]

\* if len(self._latencies) > 20: clear(); then append(sample)
RecordLatency(latencies, sample) ==
  IF Len(latencies) > LatencyWindow THEN <<sample>> ELSE Append(latencies, sample)

\* received_message: HEARTBEAT_ACK with a future in the slot
VoiceHeartbeatAck(v, t) ==
  IF v._heartbeat_ack_received = "pending"
    THEN [v EXCEPT !._heartbeat_ack_received = "done",
                   !.hb = WakeAwaiting(@),
                   !._latencies = RecordLatency(@, t - v._heartbeat_sent_time),
                   !.acks = @ + 1]
    ELSE VoiceRaise(v, Exception("InvalidStateError"))

\* speak(state): a SPEAKING frame with the state and the connection's ssrc
VoiceSpeak(v, state) ==
  VoiceSend(v, [VoiceFrame(VOICE_SPEAKING, << >>, 0, "")
                  EXCEPT !.speaking = state, !.ssrc = v.ssrc])

\* (mutant) speaks with speak()'s default state
VoiceLoadSecretKey_SpeakingVoice(v) ==
  VoiceSpeak([v EXCEPT !.secret_key = TRUE], SpeakingVoice)

\* load_secret_key(data)
VoiceLoadSecretKey(v) ==
  VoiceSpeak([v EXCEPT !.secret_key = TRUE], SpeakingNone)

\* received_message: SESSION_DESCRIPTION
VoiceSessionDescription(v, mode) ==
  VoiceLoadSecretKey([v EXCEPT !.mode = mode])

\* received_message, lines 1235-1236: the hook is awaited last, when nothing
\* was raised; hooked is the number of frames sent by then
VoiceHook(v) ==
  IF v.raised # NoSignal THEN v ELSE [v EXCEPT !.hooked = Some(Len(v.sent))]

\* received_message(msg) for the opcodes other than READY
VoiceReceivedMessage(v, op, ms, mode, t) ==
  CASE op = VOICE_HEARTBEAT_ACK /\ v._heartbeat_ack_received # "None" ->
         VoiceHeartbeatAck(v, t)
    [] op = VOICE_SESSION_DESCRIPTION -> VoiceSessionDescription(v, mode)
    [] op = VOICE_HELLO -> VoiceHello(v, ms)
    [] OTHER -> v

\* poll_event: ERROR raises ConnectionClosed without a code, the CLOSE types
\* with the code close() stored; asyncio.wait_for raises TimeoutError
VoicePollClosed(v, type) ==
  CASE type = "ERROR" -> VoiceRaise(v, ConnectionClosed(None))
    [] type = "CLOSE" -> VoiceRaise(v, ConnectionClosed(v._close_code))
    [] OTHER -> VoiceRaise(v, Exception("TimeoutError"))

\* close(code)
VoiceClose(v, code) ==
  [v EXCEPT !.hb = CancelTask(@), !._close_code = Some(code), !.open = FALSE]

\* ----------------------------------------------------------------- Plugin
\* A plugin of class nextcord.Plugin ("base") or ext.commands.Plugin ("ext").
\* Commands, checks and listeners are numbered in the order their decorators
\* ran; cmd_checks is each command object's list of checks (an application
\* command k is keyed k, a command k is keyed MaxItems + 1 + k); raised is
\* what the last load() or unload() raised.
PluginNew(class) ==
  [class |-> class, _bot |-> None,
   _app_commands |-> << >>, _app_command_checks |-> << >>,
   _commands |-> << >>, _command_checks |-> << >>, _listeners |-> << >>,
   cmd_checks |-> [k \in 1..(2 * MaxItems + 2) |-> << >>],
   raised |-> NoSignal]
AppKey(k) == k
CmdKey(k) == MaxItems + 1 + k
\* A client: the application commands, commands and listeners registered.
ClientNew == [app_commands |-> {}, commands |-> {}, listeners |-> {}]
NoClients == [c \in 1..NumClients |-> ClientNew]
Elems(seq) == {seq[i] : i \in DOMAIN seq}
\* cmd.remove_check(check): the first occurrence, if any, leaves the list
RemoveCheck(checks, check) ==
  IF check \notin Elems(checks) THEN checks
  ELSE LET i == CHOOSE i \in DOMAIN checks :
                  checks[i] = check /\ \A j \in 1..(i - 1) : checks[j] # check
       IN SubSeq(checks, 1, i - 1) \o SubSeq(checks, i + 1, Len(checks))
RECURSIVE RemoveChecks(_, _)
RemoveChecks(checks, removed) ==
  IF removed = << >> THEN checks
  ELSE RemoveChecks(RemoveCheck(checks, Head(removed)), Tail(removed))

\* (mutant) load() without the test of self._bot
NextcordPluginLoad_NoGuard(pl, cl, bot) ==
  [plugin |->
     [pl EXCEPT !._bot = Some(bot), !.raised = NoSignal,
                !.cmd_checks =
                   [k \in DOMAIN @ |->
                      IF k \in {AppKey(c) : c \in Elems(pl._app_commands)}
                        THEN @[k] \o pl._app_command_checks ELSE @[k]]],
   clients |-> [cl EXCEPT ![bot].app_commands = @ \cup Elems(pl._app_commands)]]

\* nextcord.Plugin.load(bot)
NextcordPluginLoad(pl, cl, bot) ==
  IF pl._bot # None
    THEN [plugin |-> [pl EXCEPT !.raised = Exception("AttributeError")],
          clients |-> cl]
    ELSE [plugin |->
            [pl EXCEPT !._bot = Some(bot), !.raised = NoSignal,
                       !.cmd_checks =
                          [k \in DOMAIN @ |->
                             IF k \in {AppKey(c) : c \in Elems(pl._app_commands)}
                               THEN @[k] \o pl._app_command_checks ELSE @[k]]],
          clients |-> [cl EXCEPT ![bot].app_commands = @ \cup Elems(pl._app_commands)]]

\* nextcord.Plugin.unload()
NextcordPluginUnload(pl, cl) ==
  IF pl._bot = None
    THEN [plugin |-> [pl EXCEPT !.raised = Exception("AttributeError")],
          clients |-> cl]
    ELSE [plugin |->
            [pl EXCEPT !._bot = None, !.raised = NoSignal,
                       !.cmd_checks =
                          [k \in DOMAIN @ |->
                             IF k \in {AppKey(c) : c \in Elems(pl._app_commands)}
                               THEN RemoveChecks(@[k], pl._app_command_checks)
                               ELSE @[k]]],
          clients |-> [cl EXCEPT ![pl._bot[1]].app_commands =
                                    @ \ Elems(pl._app_commands)]]

\* ext.commands.Plugin.load(bot)
CommandsPluginLoad(pl, cl, bot) ==
  LET r == NextcordPluginLoad(pl, cl, bot)
  IN IF r.plugin.raised # NoSignal THEN r
     ELSE [plugin |->
             [r.plugin EXCEPT
                !.cmd_checks =
                   [k \in DOMAIN @ |->
                      IF k \in {CmdKey(c) : c \in Elems(pl._commands)}
                        THEN @[k] \o pl._command_checks ELSE @[k]]],
           clients |->
             [r.clients EXCEPT ![bot].commands = @ \cup Elems(pl._commands),
                               ![bot].listeners = @ \cup Elems(pl._listeners)]]

\* ext.commands.Plugin.unload()
CommandsPluginUnload(pl, cl) ==
  IF pl._bot = None
    THEN [plugin |-> [pl EXCEPT !.raised = Exception("AttributeError")],
          clients |-> cl]
    ELSE LET bot == pl._bot[1]
             r == NextcordPluginUnload(pl, cl)
         IN [plugin |->
               [r.plugin EXCEPT
                  !.cmd_checks =
                     [k \in DOMAIN @ |->
                        IF k \in {CmdKey(c) : c \in Elems(pl._commands)}
                          THEN RemoveChecks(@[k], pl._command_checks) ELSE @[k]]],
             clients |->
               [r.clients EXCEPT ![bot].commands = @ \ Elems(pl._commands),
                                 ![bot].listeners = @ \ Elems(pl._listeners)]]

PluginLoad(pl, cl, bot) ==
  IF pl.class = "ext" THEN CommandsPluginLoad(pl, cl, bot)
  ELSE NextcordPluginLoad(pl, cl, bot)
PluginUnload(pl, cl) ==
  IF pl.class = "ext" THEN CommandsPluginUnload(pl, cl)
  ELSE NextcordPluginUnload(pl, cl)

VARIABLES
  engine,   \* which engine class this connection is: "ws" | "shard" | "limiter" | "voice"
  voice,    \* the DiscordVoiceWebSocket object
  plugin,   \* a Plugin object
  clients,  \* the clients a plugin can be loaded into
  ws,       \* the DiscordWebSocket object
  sh,       \* the Shard object
  rl,       \* the connection's GatewayRatelimiter
  lock,     \* GatewayRatelimiter.lock: [locked, waiters]
  callers,  \* tasks calling block(): [pc, wake, since (time of the last call)]
  stats,    \* counts of block() calls made, returned, and of decrements
  now,      \* the clock (time.time / time.perf_counter)
  last      \* the most recent operation: its kind, input and prior session

vars == <<engine, voice, plugin, clients, ws, sh, rl, lock, callers, stats, now, last>>

\* ------------------------------------------------------- the last operation
Session(x) == [session_id |-> x.session_id, resume_url |-> x.resume_url,
               sequence |-> x.sequence]
\* For a binary frame it also records the socket the frame came from, the
\* chunk, the texts decoded, `stream`: the chunks received on the connection
\* since its last complete message, this one included, and `pending`: the same
\* after this operation (empty once a chunk ended with the marker).
LastRec(kind, p, code, pre, chunk, texts, stream, pending, sock) ==
  [kind |-> kind, p |-> p, code |-> code, pre |-> pre, chunk |-> chunk,
   texts |-> texts, stream |-> stream, pending |-> pending, sock |-> sock]
Last(kind, p, code, pre, chunk, texts) ==
  LastRec(kind, p, code, pre, chunk, texts, << >>, last.pending, 0)
LastBinary(p, pre, chunk, texts, sock) ==
  LastRec("binary", p, None, pre, chunk, texts, last.pending \o chunk,
          IF EndsWithSuffix(chunk) THEN << >> ELSE last.pending \o chunk, sock)

\* send_as_json(data) / send(data): the rate limiter, then the socket
WSSendAsJson(w, r, t, op) ==
  LET b == Block(r, t)
  IN [ws |-> WSSendStr(w, op), rl |-> b.rl, now |-> b.now]

\* Each operation starts with an empty record of the frames it sends.
Fresh(x) ==
  IF "seen" \in DOMAIN x
    THEN [x EXCEPT !.sent = << >>, !.parsed = "", !.seen = NoSeen]
  ELSE IF "hooked" \in DOMAIN x
    THEN [x EXCEPT !.sent = << >>, !.hooked = << >>]
  ELSE [x EXCEPT !.sent = << >>]
\* The frames that pass the rate limiter are bounded.
LimiterRoom(n) == rl.remaining - n >= DefaultCount - MaxSent

\* ------------------------------------------------ DiscordWebSocket actions
WSPolling == engine = "ws" /\ ws.pc \in {"poll_hello", "run"}
WSPolled(w) ==
  IF w.pc = "dead" THEN w
  ELSE [w EXCEPT !.pc = IF @ = "poll_hello" THEN "handshake" ELSE "run"]

\* poll_event receives a TEXT frame holding payload p
WSPollPayload(p) ==
  /\ WSPolling /\ ws.open
  /\ p.op = HELLO => ws.hellos < MaxHello
  /\ ws' = WSPolled(WSReceivedPayload(Fresh(ws), p, now))
  /\ last' = Last("payload", p, None, Session(ws), << >>, << >>)
  /\ UNCHANGED <<engine, voice, plugin, clients, sh, rl, lock, callers, stats, now>>

\* poll_event receives ERROR, CLOSE, CLOSING or CLOSED; the socket reports
\* close code `code`
WSPollClosure(type, code) ==
  /\ WSPolling
  /\ ws' = WSPollClosed([Fresh(ws) EXCEPT !.open = FALSE, !.close_code = code], FALSE)
  /\ last' = Last(type, NoPayload, code, Session(ws), << >>, << >>)
  /\ UNCHANGED <<engine, voice, plugin, clients, sh, rl, lock, callers, stats, now>>

\* poll_event: socket.receive(timeout=...) raises asyncio.TimeoutError
WSPollTimeout ==
  /\ WSPolling
  /\ ws' = WSPollClosed(Fresh(ws), TRUE)
  /\ last' = Last("timeout", NoPayload, None, Session(ws), << >>, << >>)
  /\ UNCHANGED <<engine, voice, plugin, clients, sh, rl, lock, callers, stats, now>>

\* from_client, lines 662-667: identify() or resume() after the first poll
WSHandshake ==
  /\ engine = "ws" /\ ws.pc = "handshake"
  /\ LimiterRoom(1)
  /\ LET r == WSSendAsJson(Fresh(ws), rl, now,
                           IF ws.resume THEN RESUME ELSE IDENTIFY)
     IN /\ ws' = IF r.ws.pc = "dead" THEN r.ws ELSE [r.ws EXCEPT !.pc = "run"]
        /\ rl' = r.rl
        /\ now' = r.now
  /\ last' = Last("handshake", NoPayload, None, Session(ws), << >>, << >>)
  /\ UNCHANGED <<engine, voice, plugin, clients, sh, lock, callers, stats>>

\* the owner calls close(code)
WSCloseCall(code) ==
  /\ engine = "ws" /\ ws.pc # "dead" /\ ws.open
  /\ ws' = WSClose(Fresh(ws), code)
  /\ last' = Last("close", NoPayload, Some(code), Session(ws), << >>, << >>)
  /\ UNCHANGED <<engine, voice, plugin, clients, sh, rl, lock, callers, stats, now>>

\* _heartbeat_loop: a task leaves its sleep and runs one iteration up to the
\* await on the new future
WSHeartbeatLoop(which) ==
  /\ engine = "ws" /\ Sleeping(ws.hb, which)
  /\ ws' = IF ~ws.open THEN [Fresh(ws) EXCEPT !.hb = MoveSleeper(@, which, "exit")]
           ELSE LET w1 == WSHeartbeat(Fresh(ws), now)
                IN [w1 EXCEPT !._heartbeat_ack_received = "pending",
                              !.hb = MoveSleeper(OrphanAwaiting(@), which, "await")]
  /\ last' = Last("heartbeat_loop", NoPayload, None, Session(ws), << >>, << >>)
  /\ UNCHANGED <<engine, voice, plugin, clients, sh, rl, lock, callers, stats, now>>

\* ------------------------------------------------------------ Shard actions
ShardStep(c) == sh' = c.sh /\ rl' = c.rl /\ now' = c.now

\* the owner calls connect()
ShardConnect ==
  /\ engine = "shard" /\ sh.ctask # "running" /\ sh.connects < MaxConnects
  /\ sh' = ShardConnectTo(Fresh(sh))
  /\ last' = [Last("connect", NoPayload, None, Session(sh), << >>, << >>)
                EXCEPT !.pending = << >>]
  /\ UNCHANGED <<engine, voice, plugin, clients, ws, rl, lock, callers, stats, now>>

\* the owner calls disconnect(keep_session=...)
ShardDisconnectCall(keep_session) ==
  /\ engine = "shard" /\ sh.connects > 0
  /\ sh' = ShardDisconnect(Fresh(sh), keep_session, FALSE, FALSE)
  /\ last' = Last("disconnect", NoPayload, None, Session(sh), << >>, << >>)
  /\ UNCHANGED <<engine, voice, plugin, clients, ws, rl, lock, callers, stats, now>>

\* _connection_loop receives a TEXT frame holding payload p
ShardRecvPayload(p, suspends) ==
  /\ engine = "shard" /\ sh.ctask = "running" /\ sh.open
  /\ LimiterRoom(IF p.op = HELLO THEN 2 ELSE IF p.op = HEARTBEAT THEN 1 ELSE 0)
  /\ p.op = HELLO => sh.hellos < MaxHello
  /\ ShardStep(ShardProcessPayload(Ctx(Fresh(sh), rl, now), p, suspends))
  /\ last' = Last("payload", p, None, Session(sh), << >>, << >>)
  /\ UNCHANGED <<engine, voice, plugin, clients, ws, lock, callers, stats>>

\* _connection_loop receives ERROR, CLOSE, CLOSING or CLOSED: the socket is
\* closed with close code `code`, and the loop calls disconnect()
ShardRecvClosure(type, code, suspends) ==
  /\ engine = "shard" /\ sh.ctask = "running" /\ sh.open
  /\ sh' = ShardDisconnect([Fresh(sh) EXCEPT !.open = FALSE, !.close_code = code],
                           FALSE, TRUE, suspends)
  /\ last' = Last(type, NoPayload, code, Session(sh), << >>, << >>)
  /\ UNCHANGED <<engine, voice, plugin, clients, ws, rl, lock, callers, stats, now>>

\* _connection_loop, line 276: no frame arrives for the length of the read
\* timeout. `async for msg in self._socket` reads without a timeout, so the
\* loop stays suspended and nothing else runs.
ShardRecvSilence ==
  /\ engine = "shard" /\ sh.ctask = "running" /\ sh.open
  /\ sh' = Fresh(sh)
  /\ last' = Last("timeout", NoPayload, None, Session(sh), << >>, << >>)
  /\ UNCHANGED <<engine, voice, plugin, clients, ws, rl, lock, callers, stats, now>>

\* _heartbeat_loop: a task leaves its sleep and runs one iteration up to the
\* await on the new future
ShardHeartbeatLoop(which) ==
  /\ engine = "shard" /\ Sleeping(sh.hb, which)
  /\ LimiterRoom(1)
  /\ IF sh._socket = 0 \/ ~sh.open
       THEN /\ sh' = [Fresh(sh) EXCEPT !.hb = MoveSleeper(@, which, "exit")]
            /\ UNCHANGED <<rl, now>>
       ELSE LET c == ShardHeartbeat(Ctx(Fresh(sh), rl, now))
            IN ShardStep([c EXCEPT
                 !.sh._heartbeat_ack_received = "pending",
                 !.sh.hb = MoveSleeper(OrphanAwaiting(@), which, "await")])
  /\ last' = Last("heartbeat_loop", NoPayload, None, Session(sh), << >>, << >>)
  /\ UNCHANGED <<engine, voice, plugin, clients, ws, lock, callers, stats>>

\* ------------------------------------------------------- the connections
NoCallers == [c \in 1..NumCallers |-> [pc |-> "idle", wake |-> 0, since |-> 0]]
NoLock == [locked |-> FALSE, waiters |-> << >>]
NoStats == [calls |-> 0, returned |-> 0, consumed |-> 0, rets |-> << >>]

InitConn ==
  /\ engine \in {"ws", "shard"}
  /\ sh = ShardNew
  /\ \E prior \in {<<None, None>>, <<Some("s0"), Some(1)>>}, resume \in BOOLEAN :
       ws = IF engine = "ws" THEN WSNew(prior[1], prior[2], resume)
            ELSE WSNew(None, None, FALSE)
  /\ rl = RateLimiterNew(DefaultCount, DefaultPer)
  /\ voice = VoiceNew
  /\ plugin = PluginNew("base") /\ clients = NoClients
  /\ lock = NoLock /\ callers = NoCallers /\ stats = NoStats
  /\ now = 0
  /\ last = LastRec("init", NoPayload, None,
                    Session(IF engine = "ws" THEN ws ELSE sh),
                    << >>, << >>, << >>, << >>, 0)

NextConn ==
  \/ \E p \in Payloads : WSPollPayload(p)
  \/ \E type \in ClosureTypes, code \in CloseCodes : WSPollClosure(type, code)
  \/ WSPollTimeout
  \/ WSHandshake
  \/ \E code \in {InvalidatedCloseCode, DefaultCloseCode} : WSCloseCall(code)
  \/ \E which \in {"ref", "leaked"} : WSHeartbeatLoop(which)
  \/ ShardConnect
  \/ \E keep \in BOOLEAN : ShardDisconnectCall(keep)
  \/ \E p \in Payloads, suspends \in BOOLEAN : ShardRecvPayload(p, suspends)
  \/ \E type \in ClosureTypes, code \in CloseCodes, suspends \in BOOLEAN :
       ShardRecvClosure(type, code, suspends)
  \/ ShardRecvSilence
  \/ \E which \in {"ref", "leaked"} : ShardHeartbeatLoop(which)

Spec == InitConn /\ [][NextConn]_vars

\* ------------------------------------------------- the compressed transport
\* The binary frames a connection may receive, and the payloads the decoded
\* texts may hold.
Chunks == UNION {[1..n -> Bytes] : n \in 1..MaxChunk}
FramePayloads ==
  {Payload(DISPATCH, TRUE, Some(1), "MESSAGE_CREATE", NoData),
   Payload(RECONNECT, TRUE, None, "", NoData)}

\* poll_event receives a BINARY frame; p is what a decoded text parses to
WSPollBinary(chunk, p) ==
  /\ WSPolling /\ ws.open
  /\ Len(ws._buffer) + Len(chunk) <= MaxBuffer
  /\ EndsWithSuffix(chunk) => Len(ws._zlib) < MaxDecoded
  /\ LET f == WSFeed(Fresh(ws), chunk)
     IN /\ ws' = WSPolled(IF f.texts = << >> THEN f.w
                          ELSE WSReceivedPayload(f.w, p, now))
        /\ last' = LastBinary(IF f.texts = << >> THEN NoPayload ELSE p,
                              Session(ws), chunk, f.texts, ws.sock)
  /\ UNCHANGED <<engine, voice, plugin, clients, sh, rl, lock, callers, stats, now>>

\* _connection_loop receives a BINARY frame; p is what a decoded text parses to
ShardRecvBinary(chunk, p, suspends) ==
  /\ engine = "shard" /\ sh.ctask = "running" /\ sh.open
  /\ Len(sh._buffer) + Len(chunk) <= MaxBuffer
  /\ EndsWithSuffix(chunk) => Len(sh._zlib) < MaxDecoded
  /\ LET f == ShardProcessRawData(Fresh(sh), chunk)
     IN /\ IF f.texts = << >>
             THEN sh' = f.sh /\ UNCHANGED <<rl, now>>
             ELSE ShardStep(ShardProcessPayload(Ctx(f.sh, rl, now), p, suspends))
        /\ last' = LastBinary(IF f.texts = << >> THEN NoPayload ELSE p,
                              Session(sh), chunk, f.texts, sh._socket)
  /\ UNCHANGED <<engine, voice, plugin, clients, ws, lock, callers, stats>>

InitFrame ==
  /\ engine \in {"ws", "shard"}
  /\ sh = ShardNew
  /\ ws = WSNew(None, None, FALSE)
  /\ rl = RateLimiterNew(DefaultCount, DefaultPer)
  /\ voice = VoiceNew
  /\ plugin = PluginNew("base") /\ clients = NoClients
  /\ lock = NoLock /\ callers = NoCallers /\ stats = NoStats
  /\ now = 0
  /\ last = LastRec("init", NoPayload, None,
                    Session(IF engine = "ws" THEN ws ELSE sh),
                    << >>, << >>, << >>, << >>, 0)

NextFrame ==
  \/ \E chunk \in Chunks, p \in FramePayloads : WSPollBinary(chunk, p)
  \/ WSHandshake
  \/ ShardConnect
  \/ \E keep \in BOOLEAN : ShardDisconnectCall(keep)
  \/ \E chunk \in Chunks, p \in FramePayloads, suspends \in BOOLEAN :
       ShardRecvBinary(chunk, p, suspends)

SpecFrame == InitFrame /\ [][NextFrame]_vars

\* ------------------------------------------------------- the event waiters
\* The owner registers waiters and cancels their futures while the connection
\* receives DISPATCH payloads: READY with either session id, and RESUMED.
WaiterEvents == {"READY", "RESUMED"}
WaiterPayloads ==
  {Payload(DISPATCH, TRUE, Some(1), "READY",
           [NoData EXCEPT !.session_id = sid, !.resume_gateway_url = url]) :
     sid \in {"sA", "sB"}, url \in ResumeUrls}
  \cup {Payload(DISPATCH, TRUE, Some(1), "RESUMED", NoData)}

\* the owner calls wait_for(event, predicate, result)
WSWaitForCall(event, predicate, result) ==
  /\ engine = "ws" /\ ws.pc # "dead" /\ Len(ws.futures) < MaxWaiters
  /\ ws' = WSWaitFor(Fresh(ws), event, predicate, result)
  /\ last' = Last("wait_for", NoPayload, None, Session(ws), << >>, << >>)
  /\ UNCHANGED <<engine, voice, plugin, clients, sh, rl, lock, callers, stats, now>>

\* the owner cancels the future wait_for returned
WSCancelWaiter(f) ==
  /\ engine = "ws" /\ f \in DOMAIN ws.futures /\ ws.futures[f].state = "pending"
  /\ ws' = [Fresh(ws) EXCEPT !.futures[f] = CancelFuture(@)]
  /\ last' = Last("cancel", NoPayload, None, Session(ws), << >>, << >>)
  /\ UNCHANGED <<engine, voice, plugin, clients, sh, rl, lock, callers, stats, now>>

\* the owner appends an EventListener with a new future to dispatch_listeners
ShardAddListener(event, predicate, result) ==
  /\ engine = "shard" /\ Len(sh.futures) < MaxWaiters
  /\ sh' = [Fresh(sh) EXCEPT
              !.futures = Append(@, PendingFuture),
              !.dispatch_listeners =
                 Append(@, EventListener(predicate, event, result, Len(sh.futures) + 1))]
  /\ last' = Last("wait_for", NoPayload, None, Session(sh), << >>, << >>)
  /\ UNCHANGED <<engine, voice, plugin, clients, ws, rl, lock, callers, stats, now>>

\* the owner cancels a listener's future
ShardCancelWaiter(f) ==
  /\ engine = "shard" /\ f \in DOMAIN sh.futures /\ sh.futures[f].state = "pending"
  /\ sh' = [Fresh(sh) EXCEPT !.futures[f] = CancelFuture(@)]
  /\ last' = Last("cancel", NoPayload, None, Session(sh), << >>, << >>)
  /\ UNCHANGED <<engine, voice, plugin, clients, ws, rl, lock, callers, stats, now>>

InitWaiters ==
  /\ engine \in {"ws", "shard"}
  /\ sh = ShardNew
  /\ ws = WSNew(None, None, FALSE)
  /\ rl = RateLimiterNew(DefaultCount, DefaultPer)
  /\ voice = VoiceNew
  /\ plugin = PluginNew("base") /\ clients = NoClients
  /\ lock = NoLock /\ callers = NoCallers /\ stats = NoStats
  /\ now = 0
  /\ last = LastRec("init", NoPayload, None,
                    Session(IF engine = "ws" THEN ws ELSE sh),
                    << >>, << >>, << >>, << >>, 0)

NextWaiters ==
  \/ \E e \in WaiterEvents, pr \in Predicates, res \in Results :
       WSWaitForCall(e, pr, res)
  \/ \E f \in 1..MaxWaiters : WSCancelWaiter(f)
  \/ \E p \in WaiterPayloads : WSPollPayload(p)
  \/ WSHandshake
  \/ \E e \in WaiterEvents, pr \in Predicates, res \in Results :
       ShardAddListener(e, pr, res)
  \/ \E f \in 1..MaxWaiters : ShardCancelWaiter(f)
  \/ ShardConnect
  \/ \E p \in WaiterPayloads, suspends \in BOOLEAN : ShardRecvPayload(p, suspends)

SpecWaiters == InitWaiters /\ [][NextWaiters]_vars

\* The same with waiters whose result function may raise.
NextRaisingWaiters ==
  \/ \E e \in WaiterEvents, pr \in {"always", "raises"}, res \in RaisingResults :
       WSWaitForCall(e, pr, res)
  \/ \E p \in WaiterPayloads : WSPollPayload(p)
  \/ WSHandshake
  \/ \E e \in WaiterEvents, pr \in {"always", "raises"}, res \in RaisingResults :
       ShardAddListener(e, pr, res)
  \/ ShardConnect
  \/ \E p \in WaiterPayloads, suspends \in BOOLEAN : ShardRecvPayload(p, suspends)

SpecRaisingWaiters == InitWaiters /\ [][NextRaisingWaiters]_vars

\* ------------------------------------------------------- the owner's sends
\* The owner of a DiscordWebSocket also sends on it: request_chunks() goes
\* through send_as_json, heartbeat() through send_heartbeat, whatever the
\* state of the socket. An exception of the call is delivered to the owner.
WSSendCall ==
  /\ engine = "ws"
  /\ LimiterRoom(1)
  /\ LET r == WSSendAsJson(Fresh(ws), rl, now, REQUEST_MEMBERS)
     IN ws' = r.ws /\ rl' = r.rl /\ now' = r.now
  /\ last' = Last("send_as_json", NoPayload, None, Session(ws), << >>, << >>)
  /\ UNCHANGED <<engine, voice, plugin, clients, sh, lock, callers, stats>>

WSHeartbeatCall ==
  /\ engine = "ws"
  /\ ws' = WSHeartbeat(Fresh(ws), now)
  /\ last' = Last("send_heartbeat", NoPayload, None, Session(ws), << >>, << >>)
  /\ UNCHANGED <<engine, voice, plugin, clients, sh, rl, lock, callers, stats, now>>

SendPayloads == {p \in Payloads : p.op \in {HELLO, RECONNECT} /\ p.s = None}

InitSend ==
  /\ engine = "ws"
  /\ sh = ShardNew
  /\ ws = WSNew(None, None, FALSE)
  /\ rl = RateLimiterNew(DefaultCount, DefaultPer)
  /\ voice = VoiceNew
  /\ plugin = PluginNew("base") /\ clients = NoClients
  /\ lock = NoLock /\ callers = NoCallers /\ stats = NoStats
  /\ now = 0
  /\ last = LastRec("init", NoPayload, None, Session(ws),
                    << >>, << >>, << >>, << >>, 0)

NextSend ==
  \/ \E p \in SendPayloads : WSPollPayload(p)
  \/ \E type \in ClosureTypes, code \in CloseCodes : WSPollClosure(type, code)
  \/ WSPollTimeout
  \/ WSHandshake
  \/ \E code \in {InvalidatedCloseCode, DefaultCloseCode} : WSCloseCall(code)
  \/ \E which \in {"ref", "leaked"} : WSHeartbeatLoop(which)
  \/ WSSendCall
  \/ WSHeartbeatCall

SpecSend == InitSend /\ [][NextSend]_vars

\* ------------------------------------------------------- voice READY
\* The 74-byte datagrams sock_recv may return: the 8 header bytes, an address
\* of up to MaxIp bytes ('1', '.', or a byte that is not ASCII), a filler
\* byte (zero, or '1' for a response without padding) up to the last two
\* bytes, and the two port bytes.
IpBytes == {49, 46, 200}
FillBytes == {0, 49}
PortBytes == {0, 31, 144}
Response(ip, fill, hi, lo) ==
  [i \in 1..PacketLen |->
     IF i <= IpStart THEN 0
     ELSE IF i <= IpStart + Len(ip) THEN ip[i - IpStart]
     ELSE IF i <= PacketLen - 2 THEN fill
     ELSE IF i = PacketLen - 1 THEN hi ELSE lo]
Addresses == UNION {[1..n -> IpBytes] : n \in 0..MaxIp}
ModeLists == UNION {[1..n -> OfferedModes] : n \in 0..MaxModes}

\* poll_event receives the TEXT frame READY (the server sends it once per
\* session); sock_recv returns recv
VoiceAwaitsReady ==
  engine = "voice" /\ voice.pc = "run" /\ voice.open /\ ~voice.ssrc
VoicePollReady(modes, recv) ==
  /\ VoiceAwaitsReady
  /\ voice' = VoiceHook(VoiceInitialConnection(Fresh(voice), modes, recv))
  /\ last' = Last("voice_ready", NoPayload, None, last.pre, << >>, << >>)
  /\ UNCHANGED <<engine, plugin, clients, ws, sh, rl, lock, callers, stats, now>>

InitVoice ==
  /\ engine = "voice"
  /\ sh = ShardNew
  /\ ws = WSNew(None, None, FALSE)
  /\ voice = VoiceNew
  /\ plugin = PluginNew("base") /\ clients = NoClients
  /\ rl = RateLimiterNew(DefaultCount, DefaultPer)
  /\ lock = NoLock /\ callers = NoCallers /\ stats = NoStats
  /\ now = 0
  /\ last = LastRec("init", NoPayload, None, Session(ws),
                    << >>, << >>, << >>, << >>, 0)

NextVoiceReady ==
  /\ VoiceAwaitsReady
  /\ \E modes \in ModeLists, ip \in Addresses, fill \in FillBytes,
        hi \in PortBytes, lo \in PortBytes :
       \E recv \in {Response(ip, fill, hi, lo)} : VoicePollReady(modes, recv)

SpecVoiceReady == InitVoice /\ [][NextVoiceReady]_vars

\* ------------------------------------------------- the voice connection
VoiceOps == {VOICE_HEARTBEAT_ACK, VOICE_SESSION_DESCRIPTION, VOICE_HELLO,
             VOICE_RESUMED}

\* poll_event receives a TEXT frame with opcode op
VoicePollPayload(op) ==
  /\ engine = "voice" /\ voice.pc = "run" /\ voice.open
  /\ op = VOICE_HELLO => voice.hellos < MaxHello
  /\ op = VOICE_HEARTBEAT_ACK => voice.acks < MaxAcks
  /\ op = VOICE_SESSION_DESCRIPTION => ~voice.secret_key
  /\ \E ms \in HelloIntervals, mode \in SupportedModes :
       voice' = VoiceHook(VoiceReceivedMessage(Fresh(voice), op, ms, mode, now))
  /\ last' = Last("voice_payload", Payload(op, TRUE, None, "", NoData), None,
                  last.pre, << >>, << >>)
  /\ UNCHANGED <<engine, plugin, clients, ws, sh, rl, lock, callers, stats, now>>

\* poll_event receives ERROR or a CLOSE type, or times out
VoicePollClosure(type) ==
  /\ engine = "voice" /\ voice.pc = "run"
  /\ voice' = VoicePollClosed(
                IF type = "timeout" THEN Fresh(voice)
                ELSE [Fresh(voice) EXCEPT !.open = FALSE], type)
  /\ last' = Last(type, NoPayload, None, last.pre, << >>, << >>)
  /\ UNCHANGED <<engine, plugin, clients, ws, sh, rl, lock, callers, stats, now>>

\* the owner calls close()
VoiceCloseCall ==
  /\ engine = "voice" /\ voice.open
  /\ voice' = VoiceClose(Fresh(voice), VoiceCloseCode)
  /\ last' = Last("close", NoPayload, Some(VoiceCloseCode), last.pre, << >>, << >>)
  /\ UNCHANGED <<engine, plugin, clients, ws, sh, rl, lock, callers, stats, now>>

\* _heartbeat_loop: a task leaves its sleep and runs one iteration up to the
\* await on the new future
VoiceHeartbeatLoop(which) ==
  /\ engine = "voice" /\ Sleeping(voice.hb, which)
  /\ voice' = IF ~voice.open
                THEN [Fresh(voice) EXCEPT !.hb = MoveSleeper(@, which, "exit")]
              ELSE LET v1 == VoiceHeartbeat(Fresh(voice), now)
                   IN [v1 EXCEPT !._heartbeat_ack_received = "pending",
                                 !.hb = MoveSleeper(OrphanAwaiting(@), which, "await")]
  /\ last' = Last("heartbeat_loop", NoPayload, None, last.pre, << >>, << >>)
  /\ UNCHANGED <<engine, plugin, clients, ws, sh, rl, lock, callers, stats, now>>

NextVoice ==
  \/ \E op \in VoiceOps : VoicePollPayload(op)
  \/ \E type \in ClosureTypes \cup {"timeout"} : VoicePollClosure(type)
  \/ VoiceCloseCall
  \/ \E which \in {"ref", "leaked"} : VoiceHeartbeatLoop(which)

SpecVoice == InitVoice /\ [][NextVoice]_vars

\* ------------------------------------------------- heartbeats over time
\* A connection exchanges heartbeats while time.perf_counter() advances.
HeartbeatPayloads ==
  {p \in Payloads : p.op \in {HELLO, HEARTBEAT, HEARTBEAT_ACK} /\ p.s = None}

\* the clock advances between two operations
ConnTick ==
  /\ engine \in {"ws", "shard"} /\ now < MaxTime
  /\ now' = now + 1
  /\ last' = Last("tick", NoPayload, None, last.pre, << >>, << >>)
  /\ UNCHANGED <<engine, voice, plugin, clients, ws, sh, rl, lock, callers, stats>>

NextLatency ==
  \/ \E p \in HeartbeatPayloads : WSPollPayload(p)
  \/ WSHandshake
  \/ \E which \in {"ref", "leaked"} : WSHeartbeatLoop(which)
  \/ ShardConnect
  \/ \E p \in HeartbeatPayloads, suspends \in BOOLEAN : ShardRecvPayload(p, suspends)
  \/ \E which \in {"ref", "leaked"} : ShardHeartbeatLoop(which)
  \/ ConnTick

SpecLatency == InitConn /\ [][NextLatency]_vars

\* ------------------------------------------------- presence updates
\* Shard.change_presence: the op is the module constant PRESENCE
ShardChangePresence(c) == ShardSend(c, PRESENCE)

\* DiscordWebSocket.change_presence: send(), so a RuntimeError of the socket
\* is not swallowed
WSChangePresence(w, r, t) ==
  LET b == Block(r, t)
  IN [ws |-> IF w.open THEN [w EXCEPT !.sent = Append(@, WS_PRESENCE)]
             ELSE WSRaise(w, Exception("RuntimeError")),
      rl |-> b.rl, now |-> b.now]

\* the owner calls change_presence on a connected shard
ShardChangePresenceCall ==
  /\ engine = "shard" /\ sh._socket # 0 /\ sh.open /\ sh.ctask = "running"
  /\ LimiterRoom(1)
  /\ ShardStep(ShardChangePresence(Ctx(Fresh(sh), rl, now)))
  /\ last' = Last("change_presence", NoPayload, None, Session(sh), << >>, << >>)
  /\ UNCHANGED <<engine, voice, plugin, clients, ws, lock, callers, stats>>

\* the owner calls change_presence
WSChangePresenceCall ==
  /\ engine = "ws" /\ ws.pc # "dead"
  /\ LimiterRoom(1)
  /\ LET r == WSChangePresence(Fresh(ws), rl, now)
     IN ws' = r.ws /\ rl' = r.rl /\ now' = r.now
  /\ last' = Last("change_presence", NoPayload, None, Session(ws), << >>, << >>)
  /\ UNCHANGED <<engine, voice, plugin, clients, sh, lock, callers, stats>>

NextPresence ==
  \/ \E p \in HeartbeatPayloads : WSPollPayload(p)
  \/ \E type \in ClosureTypes, code \in CloseCodes : WSPollClosure(type, code)
  \/ WSHandshake
  \/ WSChangePresenceCall
  \/ ShardConnect
  \/ \E p \in HeartbeatPayloads, suspends \in BOOLEAN : ShardRecvPayload(p, suspends)
  \/ ShardChangePresenceCall

SpecPresence == InitConn /\ [][NextPresence]_vars

\* ------------------------------------------------- the voice handshake
\* from_client(resume=...) is called for a VoiceClient
VoiceFromClientCall(resume) ==
  /\ engine = "voice" /\ voice.pc = "from_client"
  /\ voice' = VoiceFromClient(Fresh(voice), resume)
  /\ last' = Last("from_client", NoPayload, None, last.pre, << >>, << >>)
  /\ UNCHANGED <<engine, plugin, clients, ws, sh, rl, lock, callers, stats, now>>

InitVoiceHandshake ==
  /\ engine = "voice"
  /\ sh = ShardNew
  /\ ws = WSNew(None, None, FALSE)
  /\ voice = [VoiceNew EXCEPT !.pc = "from_client"]
  /\ plugin = PluginNew("base") /\ clients = NoClients
  /\ rl = RateLimiterNew(DefaultCount, DefaultPer)
  /\ lock = NoLock /\ callers = NoCallers /\ stats = NoStats
  /\ now = 0
  /\ last = LastRec("init", NoPayload, None, Session(ws),
                    << >>, << >>, << >>, << >>, 0)

NextVoiceHandshake ==
  \/ \E resume \in BOOLEAN : VoiceFromClientCall(resume)
  \/ \E recv \in {Response(<<49>>, 0, 31, 144)} :
       VoicePollReady(<<"xsalsa20_poly1305">>, recv)
  \/ \E op \in VoiceOps : VoicePollPayload(op)
  \/ \E type \in ClosureTypes \cup {"timeout"} : VoicePollClosure(type)
  \/ VoiceCloseCall
  \/ \E which \in {"ref", "leaked"} : VoiceHeartbeatLoop(which)

SpecVoiceHandshake == InitVoiceHandshake /\ [][NextVoiceHandshake]_vars

\* ------------------------------------------------------------ the plugins
\* The decorators run while the plugin is not attached; each appends the next
\* command, check or listener to the plugin's list.
PluginLists ==
  {"_app_commands", "_app_command_checks", "_commands", "_command_checks",
   "_listeners"}
ExtLists == {"_commands", "_command_checks", "_listeners"}
PluginDecorate(list) ==
  /\ engine = "plugin" /\ plugin._bot = None
  /\ list \in ExtLists => plugin.class = "ext"
  /\ Len(plugin[list]) < MaxItems
  /\ plugin' = [plugin EXCEPT ![list] = Append(@, Len(@) + 1)]
  /\ last' = Last("plugin_decorate", NoPayload, None, last.pre, << >>, << >>)
  /\ UNCHANGED <<engine, voice, clients, ws, sh, rl, lock, callers, stats, now>>

\* load(bot) is called
PluginLoadCall(bot) ==
  /\ engine = "plugin"
  /\ LET r == PluginLoad(plugin, clients, bot)
     IN plugin' = r.plugin /\ clients' = r.clients
  /\ last' = Last("plugin_load", NoPayload, Some(bot), last.pre, << >>, << >>)
  /\ UNCHANGED <<engine, voice, ws, sh, rl, lock, callers, stats, now>>

\* unload() is called
PluginUnloadCall ==
  /\ engine = "plugin"
  /\ LET r == PluginUnload(plugin, clients)
     IN plugin' = r.plugin /\ clients' = r.clients
  /\ last' = Last("plugin_unload", NoPayload, None, last.pre, << >>, << >>)
  /\ UNCHANGED <<engine, voice, ws, sh, rl, lock, callers, stats, now>>

InitPlugin ==
  /\ engine = "plugin"
  /\ sh = ShardNew
  /\ ws = WSNew(None, None, FALSE)
  /\ voice = VoiceNew
  /\ \E class \in {"base", "ext"} : plugin = PluginNew(class)
  /\ clients = NoClients
  /\ rl = RateLimiterNew(DefaultCount, DefaultPer)
  /\ lock = NoLock /\ callers = NoCallers /\ stats = NoStats
  /\ now = 0
  /\ last = LastRec("init", NoPayload, None, Session(ws),
                    << >>, << >>, << >>, << >>, 0)

NextPlugin ==
  \/ \E list \in PluginLists : PluginDecorate(list)
  \/ \E bot \in 1..NumClients : PluginLoadCall(bot)
  \/ PluginUnloadCall

SpecPlugin == InitPlugin /\ [][NextPlugin]_vars

\* ---------------------------------------------- GatewayRatelimiter.block()
\* Tasks call block() concurrently. asyncio.Lock admits them in the order they
\* asked; a caller that finds the lock free and nobody queued takes it without
\* suspending. stats counts the calls made, the calls returned and the
\* decrements of remaining, and lists the times at which calls returned.
Idle(c) == callers[c].pc = "idle"

\* (mutant) the sleep is made after the lock was released
RLCriticalSection_SleepsUnlocked(c, lk, st, since) ==
  LET g == GetDelay(rl, now)
  IN /\ rl' = g.rl
     /\ lock' = [lk EXCEPT !.locked = FALSE]
     /\ IF g.delay # 0
          THEN /\ callers' = [callers EXCEPT ![c].pc = "sleeping",
                                            ![c].wake = now + g.delay,
                                            ![c].since = since]
               /\ stats' = [st EXCEPT !.consumed = @ + g.consumed]
          ELSE /\ callers' = [callers EXCEPT ![c].pc = "idle", ![c].wake = 0,
                                            ![c].since = since]
               /\ stats' = [st EXCEPT !.consumed = @ + g.consumed,
                                      !.returned = @ + 1,
                                      !.rets = Append(@, now)]

\* block(), lines 111-119, from the lock's acquisition by caller c up to the
\* sleep or the return; lk and st are the lock and the counts on entry,
\* since the time of the call
RLCriticalSection(c, lk, st, since) ==
  LET g == GetDelay(rl, now)
  IN /\ rl' = g.rl
     /\ IF g.delay # 0
          THEN /\ callers' = [callers EXCEPT ![c].pc = "sleeping",
                                            ![c].wake = now + g.delay,
                                            ![c].since = since]
               /\ lock' = [lk EXCEPT !.locked = TRUE]
               /\ stats' = [st EXCEPT !.consumed = @ + g.consumed]
          ELSE /\ callers' = [callers EXCEPT ![c].pc = "idle", ![c].wake = 0,
                                            ![c].since = since]
               /\ lock' = [lk EXCEPT !.locked = FALSE]
               /\ stats' = [st EXCEPT !.consumed = @ + g.consumed,
                                      !.returned = @ + 1,
                                      !.rets = Append(@, now)]

\* a task calls block(): it enters at once or queues for the lock
RLCallBlock(c) ==
  /\ engine = "limiter" /\ Idle(c) /\ stats.calls < MaxCalls
  /\ IF ~lock.locked /\ lock.waiters = << >>
       THEN RLCriticalSection(c, lock, [stats EXCEPT !.calls = @ + 1], now)
       ELSE /\ callers' = [callers EXCEPT ![c].pc = "waiting", ![c].since = now]
            /\ lock' = [lock EXCEPT !.waiters = Append(@, c)]
            /\ stats' = [stats EXCEPT !.calls = @ + 1]
            /\ UNCHANGED rl
  /\ last' = Last("block", NoPayload, None, last.pre, << >>, << >>)
  /\ UNCHANGED <<engine, voice, plugin, clients, ws, sh, now>>

\* the lock passes to the caller at the head of its queue
RLLockGranted(c) ==
  /\ engine = "limiter" /\ ~lock.locked
  /\ lock.waiters # << >> /\ Head(lock.waiters) = c
  /\ RLCriticalSection(c, [lock EXCEPT !.waiters = Tail(@)], stats,
                       callers[c].since)
  /\ last' = Last("granted", NoPayload, None, last.pre, << >>, << >>)
  /\ UNCHANGED <<engine, voice, plugin, clients, ws, sh, now>>

\* asyncio.sleep(delta) is over: the caller releases the lock and returns
RLSleepDone(c) ==
  /\ engine = "limiter" /\ callers[c].pc = "sleeping" /\ now >= callers[c].wake
  /\ callers' = [callers EXCEPT ![c].pc = "idle", ![c].wake = 0]
  /\ lock' = [lock EXCEPT !.locked = FALSE]
  /\ stats' = [stats EXCEPT !.returned = @ + 1, !.rets = Append(@, now)]
  /\ last' = Last("slept", NoPayload, None, last.pre, << >>, << >>)
  /\ UNCHANGED <<engine, voice, plugin, clients, ws, sh, rl, now>>

\* the clock advances
Tick ==
  /\ engine = "limiter" /\ now < rl.per + 1 + MaxTime
  /\ now' = now + 1
  /\ last' = Last("tick", NoPayload, None, last.pre, << >>, << >>)
  /\ UNCHANGED <<engine, voice, plugin, clients, ws, sh, rl, lock, callers, stats>>

\* time.time() is far past window 0 + per when the limiter is constructed
Epoch == WindowLen + 1
InitRL ==
  /\ engine = "limiter"
  /\ sh = ShardNew
  /\ ws = WSNew(None, None, FALSE)
  /\ \E count \in 1..MaxCount : rl = RateLimiterNew(count, WindowLen)
  /\ voice = VoiceNew
  /\ plugin = PluginNew("base") /\ clients = NoClients
  /\ lock = NoLock /\ callers = NoCallers /\ stats = NoStats
  /\ now = Epoch
  /\ last = LastRec("init", NoPayload, None, Session(ws),
                    << >>, << >>, << >>, << >>, 0)

NextRL ==
  \/ \E c \in 1..NumCallers : RLCallBlock(c)
  \/ \E c \in 1..NumCallers : RLLockGranted(c)
  \/ \E c \in 1..NumCallers : RLSleepDone(c)
  \/ Tick

SpecRL == InitRL /\ [][NextRL]_vars

\* The same with a prompt event loop: a sleep ends when it is due and a freed
\* lock reaches the next caller before the clock moves.
Due == \/ \E c \in 1..NumCallers :
            callers[c].pc = "sleeping" /\ now >= callers[c].wake
       \/ ~lock.locked /\ lock.waiters # << >>
TickPrompt == ~Due /\ Tick

NextRLPrompt ==
  \/ \E c \in 1..NumCallers : RLCallBlock(c)
  \/ \E c \in 1..NumCallers : RLLockGranted(c)
  \/ \E c \in 1..NumCallers : RLSleepDone(c)
  \/ TickPrompt

SpecRLPrompt == InitRL /\ [][NextRLPrompt]_vars

\* ================================================================ claims
\* The connection object of the engine in use, and whether its receive path
\* is still running after the last operation.
Conn == IF engine = "ws" THEN ws ELSE sh
Live == Conn.raised = NoSignal
Closure == last.kind \in ClosureTypes
Processed(op) == last.kind = "payload" /\ last.p.op = op /\ last.p.hasS
FatalCodes == {Some(c) : c \in {1000, 4004, 4010, 4011, 4012, 4013, 4014}}
Handshakes(sent) == {i \in DOMAIN sent : sent[i] \in {IDENTIFY, RESUME}}

\* C1: when DiscordWebSocket.poll_event receives a closure frame, it raises
\* ConnectionClosed iff the effective close code (the locally recorded
\* _close_code if set, else the socket's) is one of 1000, 4004, 4010..4014,
\* and ReconnectWebSocket(resume=True) for every other code, None included.
C1_CloseClassification ==
  (engine = "ws" /\ Closure) =>
    LET code == IF ws._close_code # None THEN ws._close_code ELSE last.code
    IN /\ (ws.raised.type = "ConnectionClosed") <=> (code \in FatalCodes)
       /\ code \notin FatalCodes => ws.raised = ReconnectWebSocket(TRUE)
\* A closure frame with a resumable socket code arrives after close(1000).
C1_Witness ==
  /\ engine = "ws" /\ Closure
  /\ ws._close_code = Some(1000) /\ last.code = Some(1006)
  /\ ws.raised.type = "ConnectionClosed"

\* C2: on RECONNECT (op 7), in both engines, the socket is closed, the owner
\* is signalled ReconnectWebSocket(resume=True), and session_id, resume_url
\* and sequence keep their values.
C2_ReconnectResumes ==
  (Processed(RECONNECT) /\ last.p.s = None) =>
    /\ ~Conn.open
    /\ Conn.raised = ReconnectWebSocket(TRUE)
    /\ Session(Conn) = last.pre

\* C3: on INVALID_SESSION (op 9) with data true, session_id and sequence are
\* preserved and a reconnect with resume=True is signalled; with data false
\* they are cleared and the signal carries resume=False.
C3_InvalidSession ==
  (Processed(INVALID_SESSION) /\ last.p.s = None) =>
    IF last.p.d.flag
      THEN /\ Conn.session_id = last.pre.session_id
           /\ Conn.sequence = last.pre.sequence
           /\ Conn.raised = ReconnectWebSocket(TRUE)
      ELSE /\ Conn.session_id = None
           /\ Conn.sequence = None
           /\ Conn.raised = ReconnectWebSocket(FALSE)

\* C4: after a closure with a resumable close code, or a read timeout,
\* session_id, resume_url and sequence are unchanged.
C4_SessionKeptOnResumableClosure ==
  LET code == IF engine = "ws" /\ ws._close_code # None
                THEN ws._close_code ELSE last.code
  IN ((Closure /\ code \notin FatalCodes) \/ last.kind = "timeout") =>
       Session(Conn) = last.pre

\* The heartbeat interval is the payload's heartbeat_interval / 1000.
IntervalFromHello ==
  Conn.heartbeat_interval.num * 1000
    = last.p.d.heartbeat_interval * Conn.heartbeat_interval.den

\* C5: on HELLO the engine sets heartbeat_interval to heartbeat_interval/1000,
\* sends one heartbeat at once and starts the heartbeat loop task; the
\* IDENTIFY or RESUME that follows (sent by Shard's HELLO handler, and by
\* from_client after its first poll_event) is RESUME if session_id is set and
\* IDENTIFY otherwise, and is never sent on a socket before a HELLO was
\* processed on it.
C5_HelloThenIdentifyOrResume ==
  /\ Processed(HELLO) =>
       /\ IntervalFromHello
       /\ Conn.hb.ref = "sleep"
       /\ Conn.sent # << >> /\ Conn.sent[1] = HEARTBEAT
       /\ engine = "shard" => Cardinality(Handshakes(sh.sent)) = 1
  /\ \A i \in Handshakes(Conn.sent) :
       /\ Conn.hellos >= 1
       /\ Conn.sent[i] = IF last.pre.session_id # None THEN RESUME ELSE IDENTIFY

\* C6: the stored sequence is the s of the most recent payload whose s was
\* present and non-null; a payload with no s or a null s, of any opcode or
\* event (READY included), leaves it unchanged.
C6_SequenceIsLatestS ==
  (last.kind = "payload" /\ Live) =>
    Conn.sequence = IF last.p.hasS /\ last.p.s # None
                      THEN last.p.s ELSE last.pre.sequence

\* C7: while a session lasts (no READY starting a new one) the stored sequence
\* never decreases.
C7_SequenceNeverDecreases ==
  (last.kind = "payload" /\ Live /\ last.p.t # "READY"
     /\ last.pre.sequence # None /\ Conn.sequence # None) =>
    Conn.sequence[1] >= last.pre.sequence[1]

\* C7 as amended: a payload with a non-null s sets the stored sequence to that
\* s: the sequence does not decrease when s is not lower than the stored one,
\* and a lower s does move it backward.
C7_SequenceFollowsS ==
  (last.kind = "payload" /\ Live /\ last.p.hasS /\ last.p.s # None
     /\ last.pre.sequence # None) =>
    /\ Conn.sequence # None
    /\ last.p.s[1] >= last.pre.sequence[1] =>
         Conn.sequence[1] >= last.pre.sequence[1]
    /\ last.p.s[1] < last.pre.sequence[1] => Conn.sequence = last.p.s
\* A payload with a lower s was processed and the sequence went backward.
C7_Witness ==
  /\ last.kind = "payload" /\ Live /\ last.p.hasS /\ last.p.s # None
  /\ last.p.t = "MESSAGE_CREATE" /\ Conn.session_id = last.pre.session_id
  /\ last.pre.sequence # None
  /\ last.p.s[1] < last.pre.sequence[1]
  /\ Conn.sequence = last.p.s

\* C8: for a sequence of binary chunks on one connection in which only the
\* last ends with 00 00 FF FF, each chunk before the last yields no message
\* and raises no error, and the last yields exactly one message, the
\* decompression of the concatenation of all the chunks, leaving the pending
\* buffer empty; in Shard._process_raw_data and in received_message alike.
C8_MultiChunkMessage ==
  last.kind = "binary" =>
    IF EndsWithSuffix(last.chunk)
      THEN /\ Len(last.texts) = 1
           /\ last.texts[1].data = last.stream
           /\ Conn._buffer = << >>
      ELSE /\ last.texts = << >>
           /\ Conn.raised = NoSignal

\* C9: a compression context belongs to one socket: a message is decoded by
\* a decompressor that has consumed only messages of the socket the frame
\* came from, and from the bytes received on that socket alone.
C9_ContextPerSocket ==
  (last.kind = "binary" /\ last.texts # << >>) =>
    /\ \A i \in DOMAIN last.texts[1].ctx : last.texts[1].ctx[i] = last.sock
    /\ last.texts[1].data = last.stream

\* C10: every call of block() that has returned consumed exactly one slot:
\* remaining was decremented once for each returned call, a call that slept
\* included.
C10_ReturnedCallsConsumed == stats.consumed = stats.returned

\* The step is one in which a caller of block() runs get_delay: it found the
\* lock free with nobody queued, or the lock was passed to it.
GetDelayCalled ==
  \/ last'.kind = "granted"
  \/ last'.kind = "block" /\ ~lock.locked /\ lock.waiters = << >>

\* C11: in every reachable state of GatewayRatelimiter 0 <= remaining <= max,
\* and a get_delay call made when now > window + per first sets remaining
\* back to max (so the call leaves max - 1, in a window that starts now).
C11_RemainingInRange ==
  /\ [](0 <= rl.remaining /\ rl.remaining <= rl.max)
  /\ [][(GetDelayCalled /\ now > rl.window + rl.per) =>
          (rl'.remaining = rl.max - 1 /\ rl'.window = now)]_vars
\* More slots were consumed than the capacity, and the last call found an
\* expired window with a used slot in it and refilled it.
C11_Witness ==
  /\ engine = "limiter" /\ last.kind \in {"block", "granted"}
  /\ stats.consumed > rl.max
  /\ rl.remaining = rl.max - 1 /\ rl.window = now

C13_ThreeCallsAtOnce ==
  (/\ engine = "limiter" /\ rl.max = 2 /\ stats.calls = 3
   /\ \A c \in 1..NumCallers : callers[c].since \in {0, Epoch}) =>
    /\ stats.returned >= 2
    /\ \A c \in 1..NumCallers :
         callers[c].pc = "sleeping" =>
           callers[c].wake - callers[c].since
             >= rl.per - (callers[c].since - rl.window)
    /\ stats.returned = 3 => rl.remaining = rl.max

\* C14: sending a heartbeat never goes through the rate limiter, in either
\* engine: a heartbeat-loop iteration that writes its HEARTBEAT frame leaves
\* the limiter's remaining count and window as they were and waits for nothing
\* (the clock the limiter sleeps on does not move).
C14_HeartbeatBypassesLimiter ==
  [][(/\ last'.kind = "heartbeat_loop"
      /\ (IF engine = "ws" THEN ws' ELSE sh').sent = <<HEARTBEAT>>)
       => (rl' = rl /\ now' = now)]_vars

\* ---- event waiters: the connection before and after a step, its registry,
\* and the step that dispatches event last'.p.t with data last'.p.d
ConnNext == IF engine = "ws" THEN ws' ELSE sh'
Registry(x) == IF engine = "ws" THEN x._dispatch_listeners ELSE x.dispatch_listeners
Dispatched == last'.kind = "payload" /\ last'.p.op = DISPATCH
Registered(x, f) == \E i \in DOMAIN Registry(x) : Registry(x)[i].future = f
\* the waiters of the dispatched event whose future is not cancelled
Inspected(entry) ==
  entry.event = last'.p.t /\ Conn.futures[entry.future].state # "cancelled"
Raising(entry) == entry.predicate = "raises"
Accepting(entry) ==
  \/ entry.predicate = "always"
  \/ entry.predicate = "is_sB" /\ last'.p.d.session_id = "sB"

\* C15: a registered waiter for event X whose predicate returns true on an X
\* event is resolved by that dispatch (so by the first such event after its
\* registration), with the transform of the data when a transform was given
\* and with the data itself otherwise, and leaves the registry in the same
\* dispatch; a resolved future is never in the registry and never changes
\* again. (A transform is taken to return a value.)
C15_WaiterResolvedOnce ==
  /\ [](\A i \in DOMAIN Registry(Conn) :
          Conn.futures[Registry(Conn)[i].future].state \in {"pending", "cancelled"})
  /\ [][/\ Dispatched =>
            \A i \in DOMAIN Registry(Conn) :
              LET entry == Registry(Conn)[i]
              IN (Inspected(entry) /\ Accepting(entry)) =>
                   /\ ConnNext.futures[entry.future] =
                        Future("result",
                               Value(IF entry.result = "None" THEN "data"
                                     ELSE "transform", last'.p.d))
                   /\ ~Registered(ConnNext, entry.future)
        /\ \A f \in DOMAIN Conn.futures :
             Conn.futures[f].state = "result" =>
               ConnNext.futures[f] = Conn.futures[f]]_vars
C15_Witness ==
  /\ engine \in {"ws", "shard"} /\ last.kind = "payload" /\ last.p.t = "READY"
  /\ last.p.d.session_id = "sB"
  /\ \E f, g \in DOMAIN Conn.futures :
       /\ Conn.futures[f] = Future("result", Value("transform", last.p.d))
       /\ Conn.futures[g] = Future("result", Value("data", last.p.d))
       /\ ~Registered(Conn, f) /\ ~Registered(Conn, g)

\* C16: when a waiter's predicate raises during a dispatch, that waiter's
\* future is rejected with the raised error and the waiter is removed; no
\* other future is rejected, every other waiter for the event is evaluated in
\* the same dispatch (one whose predicate returns true is resolved), and the
\* error neither ends the receive path with an exception nor closes the
\* connection.
C16_PredicateErrorIsolated ==
  [][(Dispatched /\ \E i \in DOMAIN Registry(Conn) :
                       Inspected(Registry(Conn)[i]) /\ Raising(Registry(Conn)[i])) =>
       /\ \A i \in DOMAIN Registry(Conn) :
            LET entry == Registry(Conn)[i]
            IN /\ (Inspected(entry) /\ Raising(entry)) =>
                    /\ ConnNext.futures[entry.future] =
                         Future("exception", Value("predicate", last'.p.d))
                    /\ ~Registered(ConnNext, entry.future)
               /\ (Inspected(entry) /\ Accepting(entry)) =>
                    ConnNext.futures[entry.future].state = "result"
       /\ \A f \in DOMAIN Conn.futures :
            (ConnNext.futures[f].state = "exception"
               /\ Conn.futures[f].state # "exception") =>
              \E i \in DOMAIN Registry(Conn) :
                /\ Registry(Conn)[i].future = f
                /\ Inspected(Registry(Conn)[i]) /\ Raising(Registry(Conn)[i])
       /\ ConnNext.raised = NoSignal /\ ConnNext.open
       /\ engine = "ws" => ConnNext.pc # "dead"
       /\ engine = "shard" => ConnNext.ctask = "running"]_vars
C16_Witness ==
  /\ engine \in {"ws", "shard"} /\ last.kind = "payload" /\ last.p.op = DISPATCH
  /\ Conn.raised = NoSignal /\ Conn.open
  /\ \E f, g \in DOMAIN Conn.futures :
       /\ f < g
       /\ Conn.futures[f] = Future("exception", Value("predicate", last.p.d))
       /\ Conn.futures[g].state = "result" /\ Conn.futures[g].value.d = last.p.d
       /\ ~Registered(Conn, f)

\* C17: after a dispatch of event E the registry is the registry before it
\* without the waiters for E whose future was cancelled, whose predicate
\* raised or whose predicate returned true, the others in their original
\* order; the waiters that stay (predicate false, or another event) keep
\* their futures as they were.
C17_RegistryAfterDispatch ==
  [][Dispatched =>
       /\ Registry(ConnNext) =
            SelectSeq(Registry(Conn),
                      LAMBDA entry :
                        ~(/\ entry.event = last'.p.t
                          /\ \/ Conn.futures[entry.future].state = "cancelled"
                             \/ Raising(entry)
                             \/ Accepting(entry)))
       /\ \A i \in DOMAIN Registry(ConnNext) :
            ConnNext.futures[Registry(ConnNext)[i].future] =
              Conn.futures[Registry(ConnNext)[i].future]]_vars
C17_Witness ==
  /\ engine \in {"ws", "shard"} /\ last.kind = "payload" /\ last.p.t = "READY"
  /\ Len(Conn.futures) = MaxWaiters
  /\ Registry(Conn) = << >>
  /\ \E f, g \in DOMAIN Conn.futures :
       /\ Conn.futures[f].state = "cancelled"
       /\ Conn.futures[g].state \in {"result", "exception"}
       /\ Conn.futures[g].value.d = last.p.d

\* ---- a send by send_as_json or send_heartbeat on a socket already closed
ClosedSend == last'.kind \in {"send_as_json", "send_heartbeat"} /\ ~ws.open
FatalClosure ==
  (IF ws._close_code \notin {None, Some(0)} THEN ws._close_code ELSE ws.close_code)
    \in FatalCodes
Swallowed == ws'.raised = ws.raised /\ ws'.pc = ws.pc /\ ws'.sent = << >>
Reported == ws'.raised = ConnectionClosed(None) /\ ws'.sent = << >>

\* C18 as stated: a write to a closed socket by send_as_json or send_heartbeat
\* is reported to the caller as an error, except that it is swallowed when the
\* closure is non-resumable (close code in 1000, 4004, 4010-4014).
C18_SwallowedWhenNonResumable ==
  [][ClosedSend => IF FatalClosure THEN Swallowed ELSE Reported]_vars

\* C18 (amended): the write is reported to the caller as ConnectionClosed when
\* the closure is non-resumable (close code in 1000, 4004, 4010-4014), and is
\* swallowed, the call returning normally, when the closure is resumable.
C18_SwallowedWhenResumable ==
  [][ClosedSend => IF FatalClosure THEN Reported ELSE Swallowed]_vars
C18_Witness ==
  /\ engine = "ws" /\ last.kind = "send_heartbeat"
  /\ ~ws.open /\ ws._close_code = Some(InvalidatedCloseCode)
  /\ ws.raised = ConnectionClosed(None) /\ ws.sent = << >>

\* C19: a framing error in the receive path does not escape as an unclassified
\* exception or leave the connection running: the socket is torn down, the
\* heartbeat task cancelled, and the owner gets a resumable reconnect signal.
\* The framing error here is the binary frame _process_raw_data rejects as an
\* invalid zlib message (one that does not end with 00 00 FF FF).
C19_FramingErrorReconnects ==
  (engine = "shard" /\ last.kind = "binary" /\ ~EndsWithSuffix(last.chunk)) =>
    /\ sh.raised = ReconnectWebSocket(TRUE)
    /\ ~sh.open
    /\ sh.hb.ref = "None"

\* ---- the resumable failures the receive path sees
ResumableFailure ==
  \/ Processed(RECONNECT)
  \/ Processed(INVALID_SESSION)
  \/ /\ Closure /\ last.code \notin FatalCodes
     /\ engine = "ws" => ws._close_code \notin FatalCodes
  \/ last.kind = "timeout"
ReceiveLoopFinished ==
  IF engine = "ws" THEN ws.pc = "dead" ELSE sh.ctask \in {"cancelled", "failed"}

\* C20: every resumable failure seen by the receive path (RECONNECT,
\* INVALID_SESSION, a close or error frame with a resumable code, a read
\* timeout) reaches the owner as a reconnect signal, and the receive path never
\* leaves a connection disconnected with its receive loop finished without a
\* reconnect signal or a terminal error delivered to the owner.
C20_ResumableFailuresSignalled ==
  /\ ResumableFailure => Conn.raised.type = "ReconnectWebSocket"
  /\ (/\ last.kind \in {"payload", "timeout"} \cup ClosureTypes
      /\ ~Conn.open /\ ReceiveLoopFinished) =>
       Conn.raised.type \in {"ReconnectWebSocket", "ConnectionClosed"}

\* ---- voice READY: the bytes of the response from offset 8 on, and the
\* response's first zero byte among them
AfterReady == engine = "voice" /\ last.kind = "voice_ready"
Tail8 == SubSeq(voice.recv, IpStart + 1, Len(voice.recv))
HasTerminator == \E i \in DOMAIN Tail8 : Tail8[i] = 0
BeforeTerminator(i) == Tail8[i] # 0 /\ \A j \in 1..i : Tail8[j] # 0
ParsedIp ==
  /\ voice.ip # None
  /\ \A i \in DOMAIN voice.ip[1] : voice.ip[1][i] = Tail8[i] /\ Tail8[i] # 0
  /\ Len(voice.ip[1]) < Len(Tail8) /\ Tail8[Len(voice.ip[1]) + 1] = 0
ParsedPort ==
  voice.port = Some(voice.recv[PacketLen - 1] * 256 + voice.recv[PacketLen])

\* C21 as stated: for any 74-byte response the external IP is the ASCII text
\* from offset 8 up to the first zero byte at or after offset 8, and the
\* external port the big-endian 16-bit value of the last two bytes.
C21_AnyResponseParsed ==
  (AfterReady /\ Len(voice.recv) = PacketLen) => (ParsedIp /\ ParsedPort)

\* C21 (amended): the same for a 74-byte response that has a zero byte at or
\* after offset 8 with only ASCII bytes (below 128) before it.
C21_TerminatedAsciiResponseParsed ==
  (/\ AfterReady /\ Len(voice.recv) = PacketLen
   /\ HasTerminator
   /\ \A i \in DOMAIN Tail8 : BeforeTerminator(i) => Tail8[i] < 128) =>
    (ParsedIp /\ ParsedPort)
C21_Witness ==
  /\ AfterReady /\ voice.ip = Some(<<49, 46, 49>>) /\ voice.port = Some(8080)
  /\ voice.recv[PacketLen - 1] = 31 /\ voice.recv[PacketLen] = 144

\* C22: on voice READY the mode sent in SELECT_PROTOCOL is the first mode, in
\* the order the server offered them, that is in the locally supported set;
\* SELECT_PROTOCOL is never sent with a mode outside that set, and it is sent
\* once the address was discovered and a supported mode was offered.
C22_FirstSupportedMode ==
  AfterReady =>
    /\ \A k \in DOMAIN voice.sent :
         voice.sent[k].op = VOICE_SELECT_PROTOCOL =>
           /\ voice.sent[k].mode \in SupportedModes
           /\ \E i \in DOMAIN voice.offered :
                /\ voice.offered[i] = voice.sent[k].mode
                /\ \A j \in 1..(i - 1) : voice.offered[j] \notin SupportedModes
    /\ (/\ voice.port # None
        /\ \E i \in DOMAIN voice.offered : voice.offered[i] \in SupportedModes) =>
         /\ Len(voice.sent) = 1
         /\ voice.sent[1].op = VOICE_SELECT_PROTOCOL
         /\ voice.sent[1].address = voice.ip[1]
         /\ voice.sent[1].port = voice.port[1]
C22_Witness ==
  /\ AfterReady /\ Len(voice.offered) = 2
  /\ voice.offered[1] \notin SupportedModes
  /\ Len(voice.sent) = 1 /\ voice.sent[1].op = VOICE_SELECT_PROTOCOL
  /\ voice.sent[1].mode = voice.offered[2]

Loaded == plugin._bot # None
Rejected ==
  /\ plugin'.raised = Exception("AttributeError")
  /\ plugin'._bot = plugin._bot
  /\ clients' = clients
  /\ plugin'.cmd_checks = plugin.cmd_checks

\* C24: a plugin is attached to at most one client at a time: load() succeeds
\* only when the plugin is not loaded and raises AttributeError otherwise,
\* unload() succeeds only when it is loaded and raises AttributeError
\* otherwise; a rejected call changes neither the attachment nor what is
\* registered on the clients; an unloaded plugin has nothing registered, so
\* that after a successful unload a load succeeds again.
C24_PluginLoadedOnce ==
  /\ [](engine = "plugin" =>
          \A c \in 1..NumClients :
            plugin._bot # Some(c) => clients[c] = ClientNew)
  /\ [](engine = "plugin" =>
          (~Loaded => \A k \in DOMAIN plugin.cmd_checks : plugin.cmd_checks[k] = << >>))
  /\ [][/\ last'.kind = "plugin_load" =>
             IF Loaded THEN Rejected
             ELSE /\ plugin'._bot = last'.code /\ plugin'.raised = NoSignal
                  /\ clients'[last'.code[1]].app_commands = Elems(plugin._app_commands)
                  /\ clients'[last'.code[1]].commands = Elems(plugin._commands)
                  /\ clients'[last'.code[1]].listeners = Elems(plugin._listeners)
        /\ last'.kind = "plugin_unload" =>
             IF Loaded THEN plugin'._bot = None /\ plugin'.raised = NoSignal
             ELSE Rejected]_vars
C24_Witness ==
  /\ engine = "plugin" /\ last.kind = "plugin_load" /\ last.code = Some(2)
  /\ plugin.raised = Exception("AttributeError") /\ plugin._bot = Some(1)
  /\ clients[1].commands # {} /\ clients[1].app_commands # {}
  /\ clients[2] = ClientNew

\* ---- heartbeats
\* C25: the pending-ack slot is resolved at most once: handling a
\* HEARTBEAT_ACK never resolves a future that is already resolved or
\* cancelled (set_result on such a future raises InvalidStateError).
C25_AckResolvesOnce ==
  Processed(HEARTBEAT_ACK) => Conn.raised.type # "InvalidStateError"

\* C26: at most one heartbeat is unacknowledged at any time. sent holds the
\* frames of the last operation only, and an operation that handles a
\* HEARTBEAT_ACK sends nothing, so two operations in a row that each send a
\* heartbeat send the second while the first has no ack; that never happens.
C26_OneHeartbeatInFlight ==
  [][~(/\ HEARTBEAT \in Elems(Conn.sent)
       /\ HEARTBEAT \in Elems(ConnNext.sent))]_vars

\* C27: when, after HELLO, no inbound frame arrives within the read timeout,
\* the read times out, the heartbeat loop task is cancelled and a resumable
\* reconnect is signalled, on a Shard as on a DiscordWebSocket.
C27_ReadTimeoutTearsDown ==
  (last.kind = "timeout" /\ Conn.hellos > 0) =>
    /\ ~Running(Conn.hb.ref)
    /\ Conn.raised = ReconnectWebSocket(TRUE)

\* ---- teardown
TornDown ==
  \/ last.kind \in {"close", "disconnect"}
  \/ engine = "ws" /\ (Closure \/ last.kind = "timeout")

DisconnectRuns ==
  /\ engine = "shard"
  /\ \/ last'.kind \in ClosureTypes \cup {"disconnect"}
     \/ last'.kind = "payload" /\ last'.p.op \in {RECONNECT, INVALID_SESSION}

\* C29: Shard.disconnect, called while a socket is open from any task, the
\* receive loop's own task included, runs to completion: the heartbeat task
\* and the pending-ack slot are cancelled, the socket is closed and _socket
\* is None, and with keep_session false (as on a close or error frame)
\* session_id, resume_url and sequence are None. Called when no socket is
\* open, it changes nothing.
C29_DisconnectCompletes ==
  [][DisconnectRuns =>
       IF sh._socket = 0 THEN sh' = Fresh(sh)
       ELSE /\ ~Running(sh'.hb.ref)
            /\ sh'._heartbeat_ack_received # "pending"
            /\ ~sh'.open
            /\ sh'._socket = 0
            /\ last'.kind \in ClosureTypes =>
                 /\ sh'.session_id = None /\ sh'.resume_url = None
                 /\ sh'.sequence = None]_vars

\* the heartbeat loop tasks of a connection that have not ended
RunningTasks(hb) ==
  (IF Running(hb.ref) THEN 1 ELSE 0)
    + hb.leaked.sleep + hb.leaked.await + hb.leaked.orphan

\* C30: a second HELLO on the same socket does not corrupt heartbeat state:
\* at most one heartbeat loop task of a connection is running at any time,
\* and closing the connection leaves none running.
C30_OneHeartbeatTask ==
  /\ RunningTasks(Conn.hb) <= 1
  /\ last.kind \in {"close", "disconnect"} => RunningTasks(Conn.hb) = 0

\* ---- buffered binary messages
\* C31: a buffered binary message is decompressed as soon as the accumulated
\* pending buffer ends with 00 00 FF FF, also when the marker is split across
\* two chunks: after a binary frame was handled the buffer never still ends
\* with the marker (a buffer that did was decompressed and emptied).
C31_MarkerTestedOnBuffer ==
  last.kind = "binary" => ~EndsWithSuffix(Conn._buffer)

\* ---- the limiter's critical section
Sleepers == {c \in 1..NumCallers : callers[c].pc = "sleeping"}
Queued == {c \in 1..NumCallers : callers[c].pc = "waiting"}

\* C32: at most one caller at a time is inside the limiter's critical
\* section (get_delay and the sleep it causes): the lock is held exactly
\* while one caller sleeps, the callers kept out are the lock's queue, in
\* the order they called, and remaining and window are read and changed
\* only while no other caller is inside.
C32_OneCallerInside ==
  /\ [](engine = "limiter" =>
          /\ Cardinality(Sleepers) <= 1
          /\ lock.locked <=> Sleepers # {}
          /\ Queued = {lock.waiters[i] : i \in DOMAIN lock.waiters}
          /\ \A i, j \in DOMAIN lock.waiters :
               i < j => /\ lock.waiters[i] # lock.waiters[j]
                        /\ callers[lock.waiters[i]].since
                             <= callers[lock.waiters[j]].since)
  /\ [][(engine = "limiter" /\ (rl' # rl \/ stats'.consumed # stats.consumed))
          => Sleepers = {}]_vars
C32_Witness ==
  /\ engine = "limiter" /\ lock.locked
  /\ \E c, d \in 1..NumCallers :
       /\ callers[c].pc = "sleeping" /\ callers[d].pc = "waiting"
       /\ lock.waiters = <<d>>

\* ---- the order of the steps of a DISPATCH
\* C33: for a DISPATCH payload the sequence is updated, session_id and
\* resume_url are captured when the event is READY, the parser registered
\* for the event name is invoked (an event name without a parser is skipped
\* without error), and only then are the waiters scanned: what the scan sees
\* is the new sequence, the new session_id and the parser's effects.
C33_DispatchOrder ==
  (Processed(DISPATCH) /\ engine \in {"ws", "shard"}) =>
    /\ Conn.seen.sequence = (IF last.p.s # None THEN last.p.s ELSE last.pre.sequence)
    /\ last.p.t = "READY" =>
         /\ Conn.seen.session_id = Some(last.p.d.session_id)
         /\ Conn.session_id = Some(last.p.d.session_id)
         /\ Conn.resume_url = Some(last.p.d.resume_gateway_url)
    /\ last.p.t # "READY" => Conn.seen.session_id = last.pre.session_id
    /\ Conn.seen.parsed = (IF last.p.t \in DiscordParsers THEN last.p.t ELSE "")
    /\ Conn.parsed = Conn.seen.parsed
    /\ last.p.t \notin DiscordParsers => Conn.raised = NoSignal
\* READY with a new session id resolves a waiter.
C33_Witness ==
  /\ Processed(DISPATCH) /\ last.p.t = "READY"
  /\ last.pre.session_id # Some(last.p.d.session_id)
  /\ Conn.seen.session_id = Some("sB") /\ Conn.seen.parsed = "READY"
  /\ Len(Conn.futures) = 1 /\ Conn.futures[1].state = "result"
  /\ Conn.futures[1].value.d.session_id = "sB"

\* ---- the voice handshake
\* C34: on the voice gateway IDENTIFY or RESUME is sent only after HELLO has
\* been received on that socket (the handshake starts HELLO, then IDENTIFY
\* or RESUME).
C34_VoiceIdentifyAfterHello ==
  engine = "voice" =>
    \A k \in DOMAIN voice.sent :
      voice.sent[k].op \in {VOICE_IDENTIFY, VOICE_RESUME} => voice.hellos > 0

\* C35: on voice SESSION_DESCRIPTION mode and secret_key are stored, then
\* exactly one SPEAKING frame with state none (0) and the connection's ssrc
\* is sent, before any other outbound frame and before the hook is invoked
\* for that frame.
C35_SpeakingAfterSessionDescription ==
  (/\ engine = "voice" /\ last.kind = "voice_payload"
   /\ last.p.op = VOICE_SESSION_DESCRIPTION) =>
    /\ voice.mode \in SupportedModes /\ voice.secret_key
    /\ Len(voice.sent) = 1
    /\ voice.sent[1].op = VOICE_SPEAKING
    /\ voice.sent[1].speaking = SpeakingNone
    /\ voice.sent[1].ssrc = voice.ssrc
    /\ voice.hooked = Some(1)
C35_Witness ==
  /\ engine = "voice" /\ last.kind = "voice_payload"
  /\ last.p.op = VOICE_SESSION_DESCRIPTION
  /\ voice.ssrc /\ voice.hellos > 0
  /\ voice.sent[1].ssrc /\ voice.hooked = Some(1)

\* ---- latency
\* the step handles a HEARTBEAT_ACK that finds a pending future in the slot
AckResolves ==
  /\ engine \in {"ws", "shard"}
  /\ last'.kind = "payload" /\ last'.p.op = HEARTBEAT_ACK
  /\ Conn._heartbeat_ack_received = "pending"

\* C36: whenever a HEARTBEAT_ACK resolves a pending-ack slot, latency is the
\* ack time minus the recorded send time of the most recently sent
\* heartbeat (every heartbeat whose send returns records its send time), and
\* this value is not negative.
C36_LatencyOfLastHeartbeat ==
  /\ [][AckResolves =>
          /\ ConnNext._heartbeat_ack_received = "done"
          /\ ConnNext.latency = now' - Conn._heartbeat_sent_time
          /\ ConnNext.latency >= 0]_vars
  /\ [][(engine \in {"ws", "shard"} /\ last'.kind # "tick"
            /\ ConnNext.raised = NoSignal
            /\ HEARTBEAT \in Elems(ConnNext.sent))
          => ConnNext._heartbeat_sent_time = now']_vars
  /\ [](engine \in {"ws", "shard"} => Conn._heartbeat_sent_time <= now)
C36_Witness ==
  /\ engine \in {"ws", "shard"}
  /\ last.kind = "payload" /\ last.p.op = HEARTBEAT_ACK
  /\ Conn._heartbeat_ack_received = "done"
  /\ Conn._heartbeat_sent_time > 0 /\ Conn.latency > 0
  /\ Conn.latency = now - Conn._heartbeat_sent_time

\* ---- presence updates
\* C37: each outbound frame type of the main gateway has its own opcode: a
\* presence update sent by change_presence never carries the IDENTIFY opcode
\* (2); frames with op 2 are sent only by identify(), at most once per
\* HELLO, on a Shard and on a DiscordWebSocket alike.
C37_IdentifyOpcodeOnlyByIdentify ==
  engine \in {"ws", "shard"} =>
    /\ last.kind = "change_presence" => IDENTIFY \notin Elems(Conn.sent)
    /\ IDENTIFY \in Elems(Conn.sent) =>
         /\ \/ last.kind = "handshake"
            \/ last.kind = "payload" /\ last.p.op = HELLO
         /\ Cardinality({i \in DOMAIN Conn.sent : Conn.sent[i] = IDENTIFY}) = 1

\* ---- the rate of the limiter
\* the calls of block() that returned in the interval [t, t + per)
ReturnsFrom(t) ==
  {j \in DOMAIN stats.rets : t <= stats.rets[j] /\ stats.rets[j] < t + rl.per}

\* C38: within any time interval of length per at most max calls of block()
\* return, whatever the arrival pattern of the callers, callers that arrive
\* exactly at window + per and callers that return after sleeping included.
C38_AtMostMaxPerWindow ==
  engine = "limiter" =>
    \A i \in DOMAIN stats.rets :
      Cardinality(ReturnsFrom(stats.rets[i])) <= rl.max

\* C40: is_ratelimited() changes no limiter state and agrees with block():
\* when it returns false a block() call made at the same instant returns
\* without sleeping, and when it returns true such a call sleeps.
C40_IsRatelimitedAgreesWithBlock ==
  (engine = "limiter" /\ ~lock.locked /\ lock.waiters = << >>) =>
    /\ ~IsRatelimited(rl, now) =>
         /\ GetDelay(rl, now).delay = 0
         /\ Block(rl, now).now = now
    /\ IsRatelimited(rl, now) =>
         /\ GetDelay(rl, now).delay # 0
         /\ Block(rl, now).now > now

\* ---- waiters whose result function raises
\* C39: after every dispatch, one that a raising result function aborts
\* included, no waiter whose future is already resolved or rejected remains
\* in the registry, so a later dispatch never tries to resolve or reject a
\* completed future (no InvalidStateError leaves a dispatch).
C39_NoCompletedWaiterRegistered ==
  (engine \in {"ws", "shard"} /\ last.kind = "payload" /\ last.p.op = DISPATCH) =>
    /\ \A i \in DOMAIN Registry(Conn) :
         ~Completed(Conn.futures[Registry(Conn)[i].future])
    /\ Conn.raised.type # "InvalidStateError"

====
